---------------------------- MODULE Spec2Model ----------------------------
(***************************************************************************)
(* A model of the ingestion engine of distillgov: the rate-limited,        *)
(* retrying HTTP client (ingestion/client.py), the transactional batch     *)
(* writer (ingestion/db.py), the sync cursor store (ingestion/sync_meta.py)*)
(* the per-entity sync routines (ingestion/sync_members.py,                *)
(* ingestion/sync_bills.py, ingestion/sync_votes.py), the command that     *)
(* runs them (ingestion/cli.py) and the quality gate                       *)
(* (ingestion/quality.py).                                                 *)
(*                                                                         *)
(* The module holds several state machines over disjoint variables.  Each  *)
(* has its own specification; the variables of the other machines keep     *)
(* their initial values under it.                                          *)
(*   SpecClient  CongressClient._get and _RateLimiter.wait                 *)
(*   Spec        one run of a sync routine: sync_members writing through   *)
(*               batch_execute / transaction, sync_bills, the detail       *)
(*               syncs, sync_member_votes and sync_senate_member_votes     *)
(*   SpecGate    threads calling wait() on the rate limiters of a process  *)
(*   SpecCli     the command sync and its loop over congresses and targets *)
(*   SpecParse   _parse_senate_issue and _build_house_bill_id              *)
(*   SpecStatus  determine_status                                          *)
(*   SpecQuality the quality gate: run_all_checks and check_and_report     *)
(*   SpecConn    the store connection of a sync routine, from open to exit *)
(*   SpecVotes   sync_votes: its fetch loop and its write loop             *)
(*   SpecFetch   the pagination loops of sync_members and sync_bills, with *)
(*               fairness of the loop turn                                 *)
(*   SpecRuns    consecutive incremental runs of sync_bills against a      *)
(*               source whose bills are updated while the clock advances   *)
(***************************************************************************)
EXTENDS Integers, Sequences, FiniteSets, TLC

VARIABLES
    \* ---- CongressClient / _RateLimiter (client.py) ----
    since,        \* time.monotonic() - _RateLimiter._last_call, in ticks (capped)
    sinceReq,     \* ticks since this client's previous HTTP request (capped)
    attempt,      \* loop variable of _get
    cpc,          \* position of the caller inside _get
    response,     \* the response of the last self.client.get
    outcome,      \* how _get ended
    requests,     \* HTTP requests issued by the current _get call
    sleeps,       \* seconds passed to time.sleep by the current _get call (line 81)
    reqGap,       \* ticks between the last two HTTP requests of this client (capped)
    retryLeft     \* ticks a Retry-After signal still asks the client to wait

VARIABLES
    \* ---- the store (DuckDB) and the cursor table sync_meta ----
    now,          \* the wall clock (CURRENT_TIMESTAMP, datetime.now)
    store,        \* the committed tables
    cursor,       \* sync_meta: entity -> row
    \* ---- the running sync routine ----
    routine,      \* which sync routine runs
    opts,         \* its arguments full and with_details
    pc,           \* its position
    from_dt,      \* the local from_dt (0 is None)
    ti,           \* index of bill_type in bill_types
    offset,       \* pagination offset
    src,          \* records the source holds for the endpoint being paged
    fetched,      \* the list members / bills collected so far
    reqs,         \* the page requests issued by this run
    \* ---- batch_execute / transaction (db.py) ----
    rows,         \* the rows handed to batch_execute
    batch_size,   \* its batch_size
    bi,           \* its loop variable i
    bj,           \* rows of the current batch that executemany has executed
    total,        \* its local total
    working,      \* the members table as the open transaction sees it
    inTxn,        \* a transaction is open on the connection
    begins,       \* BEGIN TRANSACTION statements executed by this run
    commits,      \* COMMIT statements that succeeded
    rollbacks,    \* ROLLBACK statements executed
    \* ---- the per-parent detail loop ----
    parents,      \* the bills the loop iterates over
    idx,          \* index of the current parent
    step,         \* index of the next statement of the loop body
    consecutive_errors,
    inserted,     \* the count later handed to set_last_sync
    \* ---- history of the run ----
    cursor0,      \* sync_meta when the run started
    store0,       \* the tables when the run started
    nwrites,      \* write statements of this run that took effect on the tables
    stamped,      \* entities whose cursor this run has set
    run_failed,   \* parents that failed in a row, up to the current one
    errors_total, \* parents that failed during this run
    \* ---- sync_senate_member_votes ----
    lis_to_bioguide, \* the mapping loaded from legislators.csv
    detail,       \* what get_vote_detail returned for the current vote
    unmatched_lis \* the local set unmatched_lis

VARIABLES
    \* ---- threads of one process calling _RateLimiter.wait (client.py) ----
    gsince,       \* per limiter: time.monotonic() - _last_call, in ticks (capped)
    sinceAny,     \* ticks since the last return of any wait() in the process
    holder,       \* per limiter: the thread that holds _lock
    tpc,          \* per thread: its position inside wait()
    tl,           \* per thread: the limiter whose wait() it called
    sleepLeft,    \* per thread: ticks its time.sleep still has to run
    gapL,         \* per limiter: ticks between its last two returns (capped)
    procGap,      \* ticks between the last two returns in the process (capped)
    returned      \* the <<thread, limiter>> pairs whose wait() has returned

clientVars == <<since, sinceReq, attempt, cpc, response, outcome, requests,
                sleeps, reqGap, retryLeft>>

syncVars == <<now, store, cursor, routine, opts, pc, from_dt, ti, offset, src,
              fetched, reqs, rows, batch_size, bi, bj, total, working, inTxn,
              begins, commits, rollbacks, parents, idx, step,
              consecutive_errors, inserted, cursor0, store0, nwrites, stamped,
              run_failed, errors_total, lis_to_bioguide, detail,
              unmatched_lis>>

VARIABLES
    \* ---- the command `sync` (cli.py) ----
    cli_pc,       \* position of the command
    congresses,   \* its local congresses
    targets,      \* its local targets
    ci,           \* index of c in congresses
    tj,           \* index of t in targets
    completed,    \* the <<t, c>> whose "Completed" line was printed, in order
    cli_exit      \* how the process ended

VARIABLES
    \* ---- bill references (sync_votes.py) ----
    parse_pc,        \* "idle", the function being run, "parsed" or "built"
    congress_arg,    \* the argument congress
    issue,           \* the argument issue, a sequence of characters
    leg_type,        \* the argument leg_type
    leg_num,         \* the argument leg_num
    senate_bill_id,  \* what _parse_senate_issue returned
    house_bill_id    \* what _build_house_bill_id returned

VARIABLES
    \* ---- determine_status (sync_bills.py) ----
    status_pc,    \* "idle", "determine_status" while it runs, "returned"
    action_text,  \* the argument, a sequence of characters
    bill_status   \* what determine_status returned

statusVars == <<status_pc, action_text, bill_status>>

VARIABLES
    \* ---- the quality gate (quality.py) ----
    q_pc,        \* position inside check_and_report / run_all_checks
    q_entry,     \* the function that was called
    q_missing,   \* the tables the database lacks
    q_rows,      \* table -> its number of rows
    q_nullcols,  \* the <<table, column>> whose values are all NULL
    q_meta,      \* sync_meta: entity -> record_count (NoCount: no row)
    results,     \* the local results of run_all_checks
    q_opened,    \* the connections get_conn has opened during the call
    q_return     \* what check_and_report returned

qualityVars == <<q_pc, q_entry, q_missing, q_rows, q_nullcols, q_meta,
                 results, q_opened, q_return>>

VARIABLES
    \* ---- store connections (db.py and the sync routines) ----
    conn_pc,       \* "idle", "body" while the connection is in use, "returned", "raised"
    conn_routine,  \* the routine that opened the connection
    conn_open,     \* the number of connections the routine holds open
    statements,    \* the statements the body has executed
    conn_error     \* the exception that left the routine

connVars == <<conn_pc, conn_routine, conn_open, statements, conn_error>>

VARIABLES
    \* ---- sync_votes (sync_votes.py) ----
    v_pc,        \* position inside sync_votes
    v_limit,     \* the argument limit
    v_count,     \* the votes the source holds (pagination.count)
    v_offset,    \* the local offset
    v_votes,     \* len(votes)
    v_written,   \* the rows the INSERT of line 191 has written
    v_failed     \* a page request of this run raised

votesVars == <<v_pc, v_limit, v_count, v_offset, v_votes, v_written, v_failed>>

VARIABLES
    \* ---- consecutive incremental runs of sync_bills ----
    u_pc,        \* where the current run of sync_bills stands
    u_clock,     \* the wall clock, in seconds
    u_updated,   \* bill -> its update time at the source
    u_from,      \* from_dt of the current run (0: None)
    u_fetch_at,  \* the time at which the current run fetched its pages
    u_got,       \* bill -> the update time of the version fetched (0: not fetched)
    u_stored,    \* bill -> the update time of the version in the store (0: no row)
    u_cursor,    \* last_update_dt of the row bills-118 (0: no row)
    u_runs,      \* the runs that have finished
    u_late       \* the bills updated after the fetch of the last finished
                 \* run and before its cursor stamp

runsVars == <<u_pc, u_clock, u_updated, u_from, u_fetch_at, u_got, u_stored,
              u_cursor, u_runs, u_late>>

gateVars == <<gsince, sinceAny, holder, tpc, tl, sleepLeft, gapL, procGap,
              returned>>

\* The variables of the machines other than the client and the sync routine.
cliVars == <<cli_pc, congresses, targets, ci, tj, completed, cli_exit>>

parseVars == <<parse_pc, congress_arg, issue, leg_type, leg_num,
               senate_bill_id, house_bill_id>>

extVars == <<gateVars, cliVars, parseVars,
            statusVars,
            qualityVars,
            connVars,
            votesVars,
            runsVars>>

\* What the actions of one machine leave alone: the variables of the others.
notGate == <<clientVars, syncVars, cliVars, parseVars,
    statusVars,
    qualityVars,
    connVars,
    votesVars,
    runsVars>>
notCli == <<clientVars, syncVars, gateVars, parseVars,
    statusVars,
    qualityVars,
    connVars,
    votesVars,
    runsVars>>
notParse == <<clientVars, syncVars, gateVars, cliVars,
    statusVars,
    qualityVars,
    connVars,
    votesVars,
    runsVars>>
notStatus == <<clientVars, syncVars, gateVars, cliVars, parseVars,
    qualityVars,
    connVars,
    votesVars,
    runsVars>>
notQuality == <<clientVars, syncVars, gateVars, cliVars, parseVars,
    statusVars,
    connVars,
    votesVars,
    runsVars>>
notConn == <<clientVars, syncVars, gateVars, cliVars, parseVars,
    statusVars, qualityVars,
    votesVars,
    runsVars>>
notVotes == <<clientVars, syncVars, gateVars, cliVars, parseVars,
    statusVars, qualityVars, connVars,
    runsVars>>
notRuns == <<clientVars, syncVars, gateVars, cliVars, parseVars,
    statusVars, qualityVars, connVars, votesVars>>

vars == <<clientVars, syncVars, extVars>>

-----------------------------------------------------------------------------
(***************************************************************************)
(* Bounds of the model.                                                    *)
(***************************************************************************)
\* Resolution of the clock: ticks per second.
TicksPerSecond == 2
\* Longest time a network call takes, in ticks, and the longest the caller
\* spends between two _get calls.
MaxLatency == 2
\* Longest overshoot of a time.sleep, in ticks.
MaxOvershoot == 1
\* The largest Retry-After value the server sends, in seconds.
MaxRetryAfter == 9
\* Records the source holds for one paginated endpoint.
MaxRecords == 2
\* Records the source returns in one page.
PageSize == 1
\* The largest batch_size handed to batch_execute.
MaxBatch == 2
\* The time of the last sync before the modelled run.
LastSyncTime == 2
\* Member elements in the detail of one Senate vote.
MaxMembers == 2
\* Threads of the process that call the pacing gate.
NumThreads == 2
\* Bills of the congress already in the store when it is populated.
NumStored == 11
\* Of these, the bills for which the source holds detail data (a sponsor,
\* cosponsors, actions, subjects, a summary); the others have none.
NumDetailed == 2

-----------------------------------------------------------------------------
(***************************************************************************)
(* client.py: constants.                                                   *)
(***************************************************************************)
_RATE_LIMIT_RPS == 1
_MAX_RETRIES == 3
_RETRY_BACKOFF_BASE == 2
_RETRYABLE_STATUS == {429, 500, 502, 503, 504}

\* Statuses the server answers with: success, a client error that is not
\* retryable, and the retryable ones.
StatusCodes == {200, 404} \cup _RETRYABLE_STATUS

\* A Retry-After header: absent, a string of digits (its value n), or a
\* string that is not all digits (an HTTP date).
NoHeader == [kind |-> "absent", n |-> 0]
HttpDate == [kind |-> "date", n |-> 0]
Digits(n) == [kind |-> "digits", n |-> n]
RetryAfterHeaders == {NoHeader, HttpDate, Digits(1), Digits(MaxRetryAfter)}

NoResponse == [status |-> 0, retry_after |-> NoHeader, json_ok |-> FALSE]

\* The responses self.client.get can return.  Only a success carries a body
\* that matters; it parses as JSON or does not.
Responses ==
    [status : {200}, retry_after : {NoHeader}, json_ok : BOOLEAN]
    \cup [status : StatusCodes \ {200}, retry_after : RetryAfterHeaders,
          json_ok : {FALSE}]

Max(a, b) == IF a >= b THEN a ELSE b
Min(a, b) == IF a <= b THEN a ELSE b

RECURSIVE Pow(_, _)
Pow(b, e) == IF e = 0 THEN 1 ELSE b * Pow(b, e - 1)

\* _RateLimiter.__init__: self._min_interval = 1.0 / rps, in ticks.
min_interval == TicksPerSecond \div _RATE_LIMIT_RPS

\* A raise_for_status that lets every status through.
RaisesNever(status) == FALSE

\* response.raise_for_status(): raises HTTPStatusError for an error status.
RaisesForStatus(status) == status >= 400

\* str.isdigit() of the Retry-After header (None and "" are falsy).
IsDigit(h) == h.kind = "digits"

\* A backoff that grows linearly (2, 4, 6) instead of doubling.
BackoffWaitLinear(att, resp) ==
    LET wait == _RETRY_BACKOFF_BASE * (att + 1)
    IN  IF resp.status = 429 /\ IsDigit(resp.retry_after)
        THEN Max(wait, resp.retry_after.n)
        ELSE wait

\* client.py 75-80: the seconds to sleep before the next attempt.
BackoffWait(att, resp) ==
    LET wait == Pow(_RETRY_BACKOFF_BASE, att + 1)
    IN  IF resp.status = 429 /\ IsDigit(resp.retry_after)
        THEN Max(wait, resp.retry_after.n)
        ELSE wait

\* The time a time.sleep(t ticks) takes: at least t.
SleepTimes(t) == {t + over : over \in 0..MaxOvershoot}

(***************************************************************************)
(* Time.  The code reads the clock only in _RateLimiter.wait, and only as  *)
(* now - self._last_call, so the model keeps that difference (since)       *)
(* instead of the two clock values.  A difference of min_interval or more  *)
(* is kept as min_interval: the code only asks whether it is smaller.      *)
(***************************************************************************)
NoTime == -1

TimerCap == min_interval

\* A timer t after d more ticks.
Advance(t, d) == IF t = NoTime THEN NoTime ELSE Min(t + d, TimerCap)

\* What is left of a waiting time t after d ticks.
Remaining(t, d) == Max(t - d, 0)

-----------------------------------------------------------------------------
(***************************************************************************)
(* The store, the cursor table and the source.                             *)
(***************************************************************************)
\* sync_bills.py line 17, and the bill_types argument of the modelled calls.
BILL_TYPES == <<"hr", "s", "hjres", "sjres", "hconres", "sconres", "hres", "sres">>
bill_types == SubSeq(BILL_TYPES, 1, 2)

\* constants.py line 44.
MAX_CONSECUTIVE_ERRORS == 10

MemberIds == 1..MaxRecords
BillNums == 1..Max(MaxRecords, NumStored)
BillKeys == {<<bill_types[t], n>> : t \in 1..Len(bill_types), n \in BillNums}

\* The sync routines that record a cursor, and the entity key of each
\* (congress is 118, the default of every routine).
DetailRoutines == {"cosponsors", "actions", "subjects", "summaries"}
Routines == {"members", "bills"} \cup DetailRoutines
EntityOf(r) ==
    CASE r = "members" -> "members"
      [] r = "bills" -> "bills-118"
      [] r = "cosponsors" -> "cosponsors-118"
      [] r = "actions" -> "actions-118"
      [] r = "subjects" -> "subjects-118"
      [] r = "summaries" -> "summaries-118"
EntityKeys == {EntityOf(r) : r \in Routines}

\* A row of sync_meta; NoRow stands for the entity having no row.
NoRow == [present |-> FALSE, last_update_dt |-> 0, record_count |-> 0]
CursorRow(dt, n) == [present |-> TRUE, last_update_dt |-> dt, record_count |-> n]

\* A row of votes: its chamber and roll_call.
Vote(c, n) == [type |-> c, number |-> n]

\* The tables: members and bills map a key to its updated_at (0: no row);
\* votes is the set of the roll call votes stored;
\* cells holds the columns of bills set by UPDATE and the rows of the
\* detail tables, each as <<bill key, column or table>>.
EmptyStore ==
    [members |-> [m \in MemberIds |-> 0],
     bills |-> [b \in BillKeys |-> 0],
     votes |-> {},
     cells |-> {}]
PopulatedStore ==
    [members |-> [m \in MemberIds |-> LastSyncTime],
     bills |-> [b \in BillKeys |->
                  IF b[1] = bill_types[1] /\ b[2] <= NumStored
                  THEN (IF b[2] = 1 THEN LastSyncTime - 1 ELSE LastSyncTime)
                  ELSE 0],
     votes |-> {Vote(c, n) : c \in {"house", "senate"}, n \in 1..NumStored},
     cells |-> {}]

NoCursors == [e \in EntityKeys |-> NoRow]
PriorCursors == [e \in EntityKeys |-> CursorRow(LastSyncTime, 1)]

\* The records the source holds for an endpoint: n records numbered 1..n,
\* of which record number bad (if any) carries no identifier (0).
SrcRecords(n, bad) == [k \in 1..n |-> IF k = bad THEN 0 ELSE k]
Sources == {SrcRecords(n, bad) : n \in 0..MaxRecords, bad \in 0..MaxRecords}

\* The page the source returns for an offset.
Page(recs, off) == SubSeq(recs, off + 1, Min(off + PageSize, Len(recs)))

\* None, and the mapping of a missing or empty legislators.csv.
None == [kind |-> "None", members |-> <<>>]
NoMapping == <<>>

NoOpts == [full |-> FALSE, with_details |-> FALSE]

\* The state of the sync machine before any routine runs; SyncIdle is the
\* one with an empty store and no cursor.
SyncStart(st, cur) ==
    /\ now = LastSyncTime + 1
    /\ store = st
    /\ cursor = cur
    /\ routine = "none"
    /\ opts = NoOpts
    /\ pc = "idle"
    /\ from_dt = 0
    /\ ti = 1
    /\ offset = 0
    /\ src = <<>>
    /\ fetched = <<>>
    /\ reqs = {}
    /\ rows = <<>>
    /\ batch_size = 1
    /\ bi = 0
    /\ bj = 0
    /\ total = 0
    /\ working = st.members
    /\ inTxn = FALSE
    /\ begins = 0
    /\ commits = 0
    /\ rollbacks = 0
    /\ parents = <<>>
    /\ idx = 1
    /\ step = 1
    /\ consecutive_errors = 0
    /\ inserted = 0
    /\ cursor0 = cur
    /\ store0 = st
    /\ nwrites = 0
    /\ stamped = {}
    /\ run_failed = 0
    /\ errors_total = 0
    /\ lis_to_bioguide = NoMapping
    /\ detail = None
    /\ unmatched_lis = {}

SyncIdle == SyncStart(EmptyStore, NoCursors)

SyncInit ==
    \E st \in {EmptyStore, PopulatedStore}, cur \in {NoCursors, PriorCursors} :
        SyncStart(st, cur)

-----------------------------------------------------------------------------
(***************************************************************************)
(* The machines that are at rest while another one runs.                   *)
(***************************************************************************)
\* The CongressClient instances of the process, each with the _RateLimiter
\* its constructor creates (client.py line 56), and the threads.
Limiters == {"a", "b"}
Threads == 1..NumThreads
NoThread == 0

\* No thread is in wait(); m is what time.monotonic() - 0.0 gives.
GateStart(m) ==
    /\ gsince = [l \in Limiters |-> m]
    /\ sinceAny = NoTime
    /\ holder = [l \in Limiters |-> NoThread]
    /\ tpc = [t \in Threads |-> "idle"]
    /\ tl = [t \in Threads |-> "a"]
    /\ sleepLeft = [t \in Threads |-> 0]
    /\ gapL = [l \in Limiters |-> NoTime]
    /\ procGap = NoTime
    /\ returned = {}

GateIdle == GateStart(TimerCap)

\* The command has not been invoked.
CliIdle ==
    /\ cli_pc = "idle"
    /\ congresses = <<>>
    /\ targets = <<>>
    /\ ci = 1
    /\ tj = 1
    /\ completed = <<>>
    /\ cli_exit = "none"

\* No bill reference is being parsed.
ParseIdle ==
    /\ parse_pc = "idle"
    /\ congress_arg = 0
    /\ issue = <<>>
    /\ leg_type = <<>>
    /\ leg_num = <<>>
    /\ senate_bill_id = <<>>
    /\ house_bill_id = <<>>

\* determine_status is not being run.
StatusIdle ==
    /\ status_pc = "idle"
    /\ action_text = <<>>
    /\ bill_status = ""

\* The quality gate is not being run; the database is empty.
QualityIdle ==
    /\ q_pc = "idle"
    /\ q_entry = ""
    /\ q_missing = {}
    /\ q_rows = <<>>
    /\ q_nullcols = {}
    /\ q_meta = <<>>
    /\ results = <<>>
    /\ q_opened = <<>>
    /\ q_return = "none"

\* No routine holds a connection.
ConnIdle ==
    /\ conn_pc = "idle"
    /\ conn_routine = ""
    /\ conn_open = 0
    /\ statements = 0
    /\ conn_error = "none"

\* sync_votes is not being run.
VotesIdle ==
    /\ v_pc = "idle"
    /\ v_limit = 0
    /\ v_count = 0
    /\ v_offset = 0
    /\ v_votes = 0
    /\ v_written = 0
    /\ v_failed = FALSE

\* No run of the consecutive-runs machine has been set up.
RunsIdle ==
    /\ u_pc = "off"
    /\ u_clock = 0
    /\ u_updated = <<>>
    /\ u_from = 0
    /\ u_fetch_at = 0
    /\ u_got = <<>>
    /\ u_stored = <<>>
    /\ u_cursor = 0
    /\ u_runs = 0
    /\ u_late = {}

ExtIdle ==
    /\ GateIdle
    /\ CliIdle
    /\ ParseIdle
    /\ StatusIdle
    /\ QualityIdle
    /\ ConnIdle
    /\ VotesIdle
    /\ RunsIdle

-----------------------------------------------------------------------------
(***************************************************************************)
(* client.py: CongressClient._get and _RateLimiter.wait.                   *)
(***************************************************************************)
\* _last_call starts at 0.0 and the monotonic clock anywhere; no request has
\* been issued.
ClientInit ==
    /\ since \in 0..TimerCap
    /\ sinceReq = NoTime
    /\ attempt = 0
    /\ cpc = "idle"
    /\ response = NoResponse
    /\ outcome = "none"
    /\ requests = 0
    /\ sleeps = <<>>
    /\ reqGap = NoTime
    /\ retryLeft = 0

\* A caller enters _get (lines 58-66); some time has passed since the last call.
GetEnter ==
    /\ UNCHANGED <<syncVars, extVars>>
    /\ cpc \in {"idle", "done"}
    /\ \E d \in 0..MaxLatency :
          /\ since' = Advance(since, d)
          /\ sinceReq' = Advance(sinceReq, d)
    /\ attempt' = 0
    /\ response' = NoResponse
    /\ outcome' = "none"
    /\ requests' = 0
    /\ sleeps' = <<>>
    /\ retryLeft' = 0
    /\ cpc' = "wait"
    /\ UNCHANGED reqGap

\* A gate that never sleeps.
GateNoSleep(elapsed) == {0}

\* _RateLimiter.wait, lines 36-37: the ticks slept, given now - _last_call.
GateSleep(elapsed) ==
    IF elapsed < min_interval
    THEN SleepTimes(min_interval - elapsed)
    ELSE {0}

\* self._limiter.wait() (line 67, lines 32-38): sleep if the last call was
\* less than min_interval ago, then stamp _last_call with the clock.
LimiterWait ==
    /\ UNCHANGED <<syncVars, extVars>>
    /\ cpc = "wait"
    /\ \E slept \in GateSleep(since) :
          /\ sinceReq' = Advance(sinceReq, slept)
          /\ retryLeft' = Remaining(retryLeft, slept)
    /\ since' = 0
    /\ cpc' = "get"
    /\ UNCHANGED <<attempt, response, outcome, requests, sleeps, reqGap>>

\* self.client.get(url, params) (line 68): the request goes out now; the call
\* returns a response, or raises a transport error (connection error,
\* timeout), which nothing in _get catches.
HttpGet ==
    /\ UNCHANGED <<syncVars, extVars>>
    /\ cpc = "get"
    /\ requests' = requests + 1
    /\ reqGap' = sinceReq
    /\ \E d \in 0..MaxLatency :
          /\ since' = Advance(since, d)
          /\ sinceReq' = Advance(0, d)
    /\ \/ /\ response' \in Responses
          /\ cpc' = "handle"
          /\ outcome' = outcome
       \/ /\ response' = NoResponse
          /\ cpc' = "done"
          /\ outcome' = "TransportError"
    /\ UNCHANGED <<attempt, sleeps, retryLeft>>

\* Lines 70-72: a status that is not retryable ends the call.
HandleFinal ==
    /\ UNCHANGED <<syncVars, extVars>>
    /\ cpc = "handle"
    /\ response.status \notin _RETRYABLE_STATUS
    /\ outcome' = IF RaisesForStatus(response.status) THEN "HTTPStatusError"
                  ELSE IF response.json_ok THEN "returned"
                  ELSE "JSONDecodeError"
    /\ cpc' = "done"
    /\ UNCHANGED <<since, sinceReq, attempt, response, requests, sleeps,
                   reqGap, retryLeft>>

\* Lines 74-81: a retryable status before the last attempt: sleep, then loop.
\* retryLeft is what a Retry-After: N of this response asks for, less the
\* time slept.
HandleRetry ==
    /\ UNCHANGED <<syncVars, extVars>>
    /\ cpc = "handle"
    /\ response.status \in _RETRYABLE_STATUS
    /\ attempt < _MAX_RETRIES
    /\ LET wait == BackoffWait(attempt, response)
           asked == IF IsDigit(response.retry_after)
                    THEN response.retry_after.n * TicksPerSecond
                    ELSE 0
       IN  /\ sleeps' = Append(sleeps, wait)
           /\ \E slept \in SleepTimes(wait * TicksPerSecond) :
                 /\ since' = Advance(since, slept)
                 /\ sinceReq' = Advance(sinceReq, slept)
                 /\ retryLeft' = Remaining(asked, slept)
    /\ attempt' = attempt + 1
    /\ response' = NoResponse
    /\ cpc' = "wait"
    /\ UNCHANGED <<outcome, requests, reqGap>>

\* Lines 74, 83-85: a retryable status on the last attempt: the loop ends and
\* raise_for_status raises.
HandleExhausted ==
    /\ UNCHANGED <<syncVars, extVars>>
    /\ cpc = "handle"
    /\ response.status \in _RETRYABLE_STATUS
    /\ ~(attempt < _MAX_RETRIES)
    /\ outcome' = IF RaisesForStatus(response.status) THEN "HTTPStatusError"
                  ELSE IF response.json_ok THEN "returned"
                  ELSE "JSONDecodeError"
    /\ cpc' = "done"
    /\ UNCHANGED <<since, sinceReq, attempt, response, requests, sleeps,
                   reqGap, retryLeft>>

\* The client before any call, for the specification of the sync routines.
ClientIdle ==
    /\ since = 0
    /\ sinceReq = NoTime
    /\ attempt = 0
    /\ cpc = "idle"
    /\ response = NoResponse
    /\ outcome = "none"
    /\ requests = 0
    /\ sleeps = <<>>
    /\ reqGap = NoTime
    /\ retryLeft = 0

ClientNext ==
    \/ GetEnter
    \/ LimiterWait
    \/ HttpGet
    \/ HandleFinal
    \/ HandleRetry
    \/ HandleExhausted

\* A client with no sync routine running.
InitClient ==
    /\ ClientInit
    /\ SyncIdle
    /\ ExtIdle

SpecClient == InitClient /\ [][ClientNext]_vars

-----------------------------------------------------------------------------
(***************************************************************************)
(* The retry policy of _get.                                               *)
(***************************************************************************)
\* The computed backoff before retry number i (1, 2, 3): base x 2^attempt.
Backoff(i) == _RETRY_BACKOFF_BASE * Pow(2, i - 1)

\* _get ended on a retryable status: the retries are exhausted.
Exhausted == cpc = "done" /\ response.status \in _RETRYABLE_STATUS

\* C6 as stated: a fetch that keeps receiving a retryable status issues at
\* most 1 + 3 requests, has slept exactly base x 2^attempt seconds (2, 4, 8)
\* before each retry, and raises after the last attempt without a further
\* sleep.
C6_WaitsAreBackoff ==
    /\ requests <= 1 + _MAX_RETRIES
    /\ Len(sleeps) <= _MAX_RETRIES
    /\ \A i \in 1..Len(sleeps) : sleeps[i] = Backoff(i)
    /\ Exhausted => /\ outcome = "HTTPStatusError"
                    /\ requests = 1 + _MAX_RETRIES
                    /\ Len(sleeps) = _MAX_RETRIES

C6_Bounded ==
    /\ requests <= 1 + _MAX_RETRIES
    /\ Len(sleeps) = attempt
    /\ Len(sleeps) <= _MAX_RETRIES
    /\ requests <= Len(sleeps) + 1
    /\ \A i \in 1..Len(sleeps) : sleeps[i] >= Backoff(i)
    /\ Exhausted => /\ outcome = "HTTPStatusError"
                    /\ requests = 1 + _MAX_RETRIES
                    /\ Len(sleeps) = _MAX_RETRIES

C6_SleepStep ==
    (cpc = "handle" /\ cpc' = "wait") =>
        LET n == response.retry_after.n
            honoured == response.status = 429 /\ IsDigit(response.retry_after)
                        /\ n > Backoff(attempt + 1)
        IN  sleeps' = Append(sleeps, IF honoured THEN n ELSE Backoff(attempt + 1))

\* C6, amended: a fetch that keeps receiving a retryable status issues at
\* most 1 + 3 requests and raises after the last attempt without a further
\* sleep; before retry i it sleeps base x 2^attempt seconds (2, 4, 8), or the
\* Retry-After seconds of a 429 response when that number is larger.
C6_RetryBound == [](C6_Bounded) /\ [][C6_SleepStep]_vars

\* Three retries with the waits 2, 4, 8 ended in the raise.
C6_Witness ==
    /\ Exhausted
    /\ outcome = "HTTPStatusError"
    /\ sleeps = <<2, 4, 8>>
    /\ requests = 4

\* C7: after a retryable response that carries Retry-After: N (any retryable
\* status), the next attempt starts no sooner than N seconds after that
\* response was handled.
C7_RetryAfterHonoured ==
    (attempt > 0 /\ cpc \in {"handle", "done"}) => retryLeft = 0

\* C8: _get never swallows an error.  It returns only on a response whose
\* status is no error and whose body parsed; an error status that is not
\* retryable raises at once, with no retry after it (one request when it is
\* the first response); a retryable status on the last attempt raises.
C8_NeverSwallows ==
    /\ cpc = "done" => outcome # "none"
    /\ outcome = "returned" =>
          /\ cpc = "done"
          /\ response.status \in StatusCodes
          /\ response.status < 400
          /\ response.json_ok
    /\ (cpc = "done" /\ response.status >= 400) =>
          outcome = "HTTPStatusError"
    /\ (cpc = "done" /\ response.status >= 400
            /\ response.status \notin _RETRYABLE_STATUS) =>
          /\ requests = attempt + 1
          /\ Len(sleeps) = attempt
    /\ Exhausted => requests = 1 + _MAX_RETRIES

\* A 404 on the first request: one request, no sleep, the error raised.
C8_Witness ==
    /\ cpc = "done"
    /\ response.status = 404
    /\ outcome = "HTTPStatusError"
    /\ requests = 1
    /\ sleeps = <<>>

\* C9: a transport error (connection error, timeout) escalates to the caller
\* only after the retry bound is exhausted.
C9_TransportRetried ==
    outcome = "TransportError" => requests = 1 + _MAX_RETRIES

\* C10: every HTTP request of a client, a first attempt or a retry, goes out
\* when the pacing gate has just stamped _last_call, and two consecutive
\* requests of the client are at least 1 / rps seconds apart.
C10_Paced ==
    /\ cpc = "get" => since = 0
    /\ reqGap # NoTime => reqGap >= min_interval
    /\ (sinceReq # NoTime /\ cpc # "get") => since = sinceReq

\* The first request of a later _get call went out no sooner than one
\* interval after the previous call's last request, which had returned at
\* once: the gate slept.
C10_Witness ==
    /\ cpc = "handle"
    /\ requests = 1
    /\ attempt = 0
    /\ reqGap = min_interval

-----------------------------------------------------------------------------
(***************************************************************************)
(* sync_meta.py: the cursor store.                                         *)
(***************************************************************************)
fetchVars == <<from_dt, ti, offset, src, fetched, reqs>>
batchVars == <<rows, batch_size, bi, bj, total, working, inTxn, begins,
               commits, rollbacks>>
loopVars == <<parents, idx, step, consecutive_errors>>
histVars == <<cursor0, store0>>
ghostVars == <<run_failed, errors_total>>
senateVars == <<lis_to_bioguide, detail, unmatched_lis>>

\* get_last_sync(entity): last_update_dt of the entity's row, None (0) when
\* there is no row, and None when the lookup raises.
get_last_sync(entity) ==
    {IF cursor[entity].present THEN cursor[entity].last_update_dt ELSE 0, 0}

\* A set_last_sync that rewrites the table with the one row.
set_last_sync_alone(entity, record_count) ==
    [e \in EntityKeys |->
        IF e = entity THEN CursorRow(now, record_count) ELSE NoRow]

\* The row set_last_sync(entity, record_count) writes: INSERT OR REPLACE
\* with last_update_dt = now.
set_last_sync(entity, record_count) ==
    [cursor EXCEPT ![entity] = CursorRow(now, record_count)]

\* A table after INSERT OR REPLACE of the row with this key at time t.
Upsert(table, key, t) == [table EXCEPT ![key] = t]

\* A table after INSERT OR REPLACE of each row of the list in order.
RECURSIVE ApplyRows(_, _, _)
ApplyRows(table, list, t) ==
    IF list = <<>> THEN table
    ELSE ApplyRows(Upsert(table, Head(list), t), Tail(list), t)

\* What every routine does on entry: the run's history starts.
RunReset(r, o) ==
    /\ routine' = r
    /\ opts' = o
    /\ cursor0' = cursor
    /\ store0' = store
    /\ nwrites' = 0
    /\ stamped' = {}
    /\ reqs' = {}
    /\ fetched' = <<>>
    /\ offset' = 0
    /\ ti' = 1
    /\ inserted' = 0
    /\ rows' = <<>>
    /\ bi' = 0
    /\ bj' = 0
    /\ total' = 0
    /\ working' = store.members
    /\ inTxn' = FALSE
    /\ begins' = 0
    /\ commits' = 0
    /\ rollbacks' = 0
    /\ parents' = <<>>
    /\ idx' = 1
    /\ step' = 1
    /\ consecutive_errors' = 0
    /\ run_failed' = 0
    /\ errors_total' = 0
    /\ lis_to_bioguide' = NoMapping
    /\ detail' = None
    /\ unmatched_lis' = {}
    /\ UNCHANGED <<now, store, cursor, clientVars, extVars>>

-----------------------------------------------------------------------------
(***************************************************************************)
(* sync_members.py: sync_members; db.py: batch_execute and transaction.    *)
(***************************************************************************)
\* sync_members lines 96-101: the rows of the members that have a
\* bioguide_id.
TransformMembers(members) == SelectSeq(members, LAMBDA m : m # 0)

\* sync_members is entered (lines 72-78).  It looks up no cursor.
SyncMembersStart ==
    /\ pc = "idle"
    /\ RunReset("members", NoOpts)
    /\ from_dt' = 0
    /\ src' \in Sources
    /\ batch_size' \in 1..MaxBatch
    /\ pc' = "fetch"

\* A loop that stops after its first page.
StopsAfterFirst(batch, off, count) == TRUE

\* Lines 84-85 and 91-92: the loop ends on an empty page, or once the offset
\* has reached pagination.count.
LastPage(batch, off, count) == batch = <<>> \/ off >= count

\* One turn of the loop of lines 80-92: a page is requested and arrives.
MembersFetch ==
    /\ routine = "members"
    /\ pc = "fetch"
    /\ reqs' = reqs \cup {[endpoint |-> "member", offset |-> offset,
                           fromDateTime |-> 0]}
    /\ LET batch == Page(src, offset)
           off == offset + Len(batch)
       IN  /\ fetched' = fetched \o batch
           /\ offset' = off
           /\ IF LastPage(batch, off, Len(src))
              THEN /\ rows' = TransformMembers(fetched \o batch)
                   /\ pc' = "batch"
              ELSE /\ rows' = rows
                   /\ pc' = "fetch"
    /\ UNCHANGED <<now, store, cursor, routine, opts, from_dt, ti, src,
                   batch_size, bi, bj, total, working, inTxn, begins, commits,
                   rollbacks, loopVars, inserted, histVars, nwrites, stamped,
                   clientVars, extVars, ghostVars, senateVars>>

\* A page request of sync_members or sync_bills raises (a fatal client error
\* or exhausted retries in _get); nothing catches it.
FetchFails ==
    /\ routine \in {"members", "bills"}
    /\ pc = "fetch"
    /\ reqs' = reqs \cup
          {[endpoint |-> IF routine = "members" THEN "member" ELSE bill_types[ti],
            offset |-> offset,
            fromDateTime |-> IF routine = "members" THEN 0 ELSE from_dt]}
    /\ pc' = "raised"
    /\ UNCHANGED <<now, store, cursor, routine, opts, from_dt, ti, offset, src,
                   fetched, batchVars, loopVars, inserted, histVars, nwrites,
                   stamped, clientVars, extVars, ghostVars, senateVars>>

\* A slice that always starts at the first row.
BatchFromStart == SubSeq(rows, 1, Min(batch_size, Len(rows)))

\* batch_execute line 77: the rows of the batch that starts at i.
Batch == SubSeq(rows, bi + 1, Min(bi + batch_size, Len(rows)))

\* Running the statements outside any transaction.
NoTransaction == FALSE

\* transaction line 53: BEGIN TRANSACTION opens a transaction.
BeginTransaction == TRUE

\* The committed table after a statement whose effect is the table w: inside
\* an open transaction nothing is committed yet, outside one the statement
\* commits by itself.
ExecuteInto(committed, w, open) == IF open THEN committed ELSE w

\* A rollback that leaves the executed rows of the batch in the table.
RollbackKeeps(committed, w) == w

\* transaction lines 57-59: the committed table after ROLLBACK.
RolledBack(committed, w) == committed

\* batch_execute lines 76-78, transaction line 53: the next batch begins.
BatchBegin ==
    /\ routine = "members"
    /\ pc = "batch"
    /\ bi < Len(rows)
    /\ inTxn' = BeginTransaction
    /\ working' = store.members
    /\ bj' = 0
    /\ begins' = begins + 1
    /\ pc' = "exec"
    /\ UNCHANGED <<now, store, cursor, routine, opts, fetchVars, rows,
                   batch_size, bi, total, commits, rollbacks, loopVars,
                   inserted, histVars, nwrites, stamped,
                   clientVars, extVars, ghostVars, senateVars>>

\* conn.executemany (line 79) executes the statement for the next row.
ExecRow ==
    /\ routine = "members"
    /\ pc = "exec"
    /\ bj < Len(Batch)
    /\ working' = Upsert(working, Batch[bj + 1], now)
    /\ store' = [store EXCEPT !.members =
                    ExecuteInto(store.members, working', inTxn)]
    /\ bj' = bj + 1
    /\ UNCHANGED <<now, cursor, routine, opts, pc, fetchVars, rows, batch_size,
                   bi, total, inTxn, begins, commits, rollbacks, loopVars,
                   inserted, histVars, nwrites, stamped,
                   clientVars, extVars, ghostVars, senateVars>>

\* conn.executemany raises on the next row, or COMMIT raises (transaction
\* lines 55-57): control reaches the except clause.
ExecFails ==
    /\ routine = "members"
    /\ pc = "exec"
    /\ pc' = "rollback"
    /\ UNCHANGED <<now, store, cursor, routine, opts, fetchVars, batchVars,
                   loopVars, inserted, histVars, nwrites, stamped,
                   clientVars, extVars, ghostVars, senateVars>>

\* transaction line 56 and batch_execute line 80: COMMIT, total += len(batch).
Commit ==
    /\ routine = "members"
    /\ pc = "exec"
    /\ bj = Len(Batch)
    /\ store' = [store EXCEPT !.members = working]
    /\ inTxn' = FALSE
    /\ commits' = commits + 1
    /\ total' = total + Len(Batch)
    /\ nwrites' = nwrites + Len(Batch)
    /\ bi' = bi + batch_size
    /\ pc' = "batch"
    /\ UNCHANGED <<now, cursor, routine, opts, fetchVars, rows, batch_size, bj,
                   working, begins, rollbacks, loopVars, inserted, histVars,
                   stamped, clientVars, extVars, ghostVars, senateVars>>

\* transaction lines 57-59: ROLLBACK, then the exception is raised again; it
\* leaves batch_execute, get_conn closes the connection, sync_members raises.
Rollback ==
    /\ routine = "members"
    /\ pc = "rollback"
    /\ store' = [store EXCEPT !.members = RolledBack(store.members, working)]
    /\ working' = store'.members
    /\ inTxn' = FALSE
    /\ rollbacks' = rollbacks + 1
    /\ pc' = "raised"
    /\ UNCHANGED <<now, cursor, routine, opts, fetchVars, rows, batch_size, bi,
                   bj, total, begins, commits, loopVars, inserted, histVars,
                   nwrites, stamped,
                   clientVars, extVars, ghostVars, senateVars>>

\* batch_execute line 81 and sync_members lines 104-106: every batch is
\* done, the total is returned and the connection closed.
BatchReturn ==
    /\ routine = "members"
    /\ pc = "batch"
    /\ ~(bi < Len(rows))
    /\ inserted' = total
    /\ pc' = "cursor"
    /\ UNCHANGED <<now, store, cursor, routine, opts, fetchVars, batchVars,
                   loopVars, histVars, nwrites, stamped,
                   clientVars, extVars, ghostVars, senateVars>>

\* The process is killed while sync_members writes: the open transaction, if
\* any, is lost with it.
Kill ==
    /\ routine = "members"
    /\ pc \in {"batch", "exec", "rollback", "cursor"}
    /\ working' = store.members
    /\ inTxn' = FALSE
    /\ pc' = "killed"
    /\ UNCHANGED <<now, store, cursor, routine, opts, fetchVars, rows,
                   batch_size, bi, bj, total, begins, commits, rollbacks,
                   loopVars, inserted, histVars, nwrites, stamped,
                   clientVars, extVars, ghostVars, senateVars>>

-----------------------------------------------------------------------------
(***************************************************************************)
(* sync_bills.py: sync_bills.                                              *)
(***************************************************************************)
\* A get_bills that sends a fromDateTime filter even when given None.
AlwaysFilters(from_datetime) ==
    IF from_datetime = 0 THEN LastSyncTime ELSE from_datetime

\* get_bills lines 118-120: the fromDateTime parameter of a request (0: the
\* request carries none).
FromDateTimeParam(from_datetime) == from_datetime

\* sync_bills is entered (lines 30-43): from_dt is looked up unless full.
SyncBillsStart ==
    /\ pc = "idle"
    /\ \E o \in [full : BOOLEAN, with_details : BOOLEAN] :
          /\ RunReset("bills", o)
          /\ from_dt' \in (IF o.full THEN {0} ELSE get_last_sync("bills-118"))
    /\ src' \in Sources
    /\ batch_size' = batch_size
    /\ pc' = "fetch"

\* One turn of the loop of lines 45-61: a page of the current bill_type is
\* requested and arrives; after the last page of the last type the write
\* loop starts (lines 65-67).
BillsFetch ==
    /\ routine = "bills"
    /\ pc = "fetch"
    /\ reqs' = reqs \cup {[endpoint |-> bill_types[ti], offset |-> offset,
                           fromDateTime |-> FromDateTimeParam(from_dt)]}
    /\ LET batch == Page(src, offset)
           off == offset + Len(batch)
           bills == [k \in 1..Len(batch) |->
                        [type |-> bill_types[ti], number |-> batch[k]]]
       IN  /\ fetched' = fetched \o bills
           /\ IF ~LastPage(batch, off, Len(src))
              THEN /\ offset' = off
                   /\ UNCHANGED <<ti, src, pc>>
              ELSE IF ti < Len(bill_types)
              THEN /\ ti' = ti + 1
                   /\ offset' = 0
                   /\ src' \in Sources
                   /\ pc' = pc
              ELSE /\ offset' = off
                   /\ pc' = "write"
                   /\ UNCHANGED <<ti, src>>
    /\ UNCHANGED <<now, store, cursor, routine, opts, from_dt, batchVars,
                   loopVars, inserted, histVars, nwrites, stamped,
                   clientVars, extVars, ghostVars, senateVars>>

\* Lines 67-98: the next bill of the list is written, or passed over when it
\* has no number.  The statement runs outside any transaction.
BillsWrite ==
    /\ routine = "bills"
    /\ pc = "write"
    /\ idx <= Len(fetched)
    /\ LET bill == fetched[idx]
       IN  IF bill.number = 0
           THEN UNCHANGED <<store, inserted, nwrites>>
           ELSE /\ store' = [store EXCEPT !.bills =
                    ExecuteInto(store.bills,
                                Upsert(store.bills, <<bill.type, bill.number>>, now),
                                FALSE)]
                /\ inserted' = inserted + 1
                /\ nwrites' = nwrites + 1
    /\ idx' = idx + 1
    /\ UNCHANGED <<now, cursor, routine, opts, pc, fetchVars, batchVars,
                   parents, step, consecutive_errors, histVars, stamped,
                   clientVars, extVars, ghostVars, senateVars>>

\* The INSERT of lines 82-97 raises; nothing catches it.
BillsWriteFails ==
    /\ routine = "bills"
    /\ pc = "write"
    /\ idx <= Len(fetched)
    /\ fetched[idx].number # 0
    /\ pc' = "raised"
    /\ UNCHANGED <<now, store, cursor, routine, opts, fetchVars, batchVars,
                   loopVars, inserted, histVars, nwrites, stamped,
                   clientVars, extVars, ghostVars, senateVars>>

\* The write loop ends and get_conn closes the connection (line 98).
BillsWriteDone ==
    /\ routine = "bills"
    /\ pc = "write"
    /\ idx > Len(fetched)
    /\ pc' = "cursor"
    /\ UNCHANGED <<now, store, cursor, routine, opts, fetchVars, batchVars,
                   loopVars, inserted, histVars, nwrites, stamped,
                   clientVars, extVars, ghostVars, senateVars>>

-----------------------------------------------------------------------------
(***************************************************************************)
(* The cursor update that ends a routine.                                  *)
(***************************************************************************)
\* A routine that raises once its cursor is recorded.
AfterCursorRaises == "raised"

\* What follows set_last_sync in the routine: sync_bills goes on to
\* sync_bill_details when with_details is set (lines 103-104).
AfterCursor ==
    IF routine = "bills" /\ opts.with_details THEN "details" ELSE "done"

\* set_last_sync(entity, inserted): sync_members line 107, sync_bills
\* line 101, and the last line of each detail sync.
SetCursor ==
    /\ pc = "cursor"
    /\ cursor' = set_last_sync(EntityOf(routine), inserted)
    /\ stamped' = stamped \cup {EntityOf(routine)}
    /\ pc' = AfterCursor
    /\ UNCHANGED <<now, store, routine, opts, fetchVars, batchVars, loopVars,
                   inserted, histVars, nwrites,
                   clientVars, extVars, ghostVars, senateVars>>

\* set_last_sync raises (the INSERT OR REPLACE into sync_meta fails).
SetCursorFails ==
    /\ pc = "cursor"
    /\ pc' = "raised"
    /\ UNCHANGED <<now, store, cursor, routine, opts, fetchVars, batchVars,
                   loopVars, inserted, histVars, nwrites, stamped,
                   clientVars, extVars, ghostVars, senateVars>>

-----------------------------------------------------------------------------
(***************************************************************************)
(* sync_bills.py: sync_cosponsors, sync_actions, sync_subjects,            *)
(* sync_summaries and sync_bill_details.                                   *)
(***************************************************************************)
\* Every bill key in table order.
AllBillKeys ==
    [i \in 1..(Len(bill_types) * Cardinality(BillNums)) |->
        [type |-> bill_types[((i - 1) \div Cardinality(BillNums)) + 1],
         number |-> ((i - 1) % Cardinality(BillNums)) + 1]]

\* A SELECT that leaves out the updated_at condition.
SelectEveryBill(bills, from) ==
    SelectSeq(AllBillKeys, LAMBDA b : bills[<<b.type, b.number>>] # 0)

\* The SELECT at the head of each detail sync: the bills of the congress,
\* only those with updated_at >= from_dt when from_dt is set.
SelectBills(bills, from) ==
    SelectSeq(AllBillKeys,
              LAMBDA b : /\ bills[<<b.type, b.number>>] # 0
                         /\ (from # 0 => bills[<<b.type, b.number>>] >= from))

\* sync_member_votes lines 237-249: the House votes of the congress, at most
\* limit of them; sync_senate_member_votes lines 422-425: the Senate votes.
member_votes_limit == 100
SelectVotes(votes, chamber) ==
    SelectSeq([i \in 1..NumStored |-> Vote(chamber, i)], LAMBDA v : v \in votes)
Limited(list, limit) == SubSeq(list, 1, Min(Len(list), limit))

\* The steps of one turn of a detail loop: a request (F) or the writes that
\* follow it (W), with whether the write adds to the count the routine
\* passes to set_last_sync.
F(what) == [kind |-> "F", what |-> what, counted |-> FALSE]
W(what, counted) == [kind |-> "W", what |-> what, counted |-> counted]
Plan(r) ==
    CASE r = "cosponsors" ->
            <<F("bill"), W("sponsor_id", FALSE), W("short_title", FALSE),
              F("cosponsors"), W("bill_cosponsors", TRUE)>>
      [] r = "actions" -> <<F("actions"), W("bill_actions", TRUE)>>
      [] r = "subjects" ->
            <<F("subjects"), W("bill_subjects", TRUE), W("policy_area", FALSE)>>
      [] r = "summaries" ->
            <<F("summaries"), W("summary", TRUE),
              F("text"), W("full_text_url", TRUE)>>
      [] r = "member_votes" ->
            <<F("vote_members"), W("member_votes", TRUE)>>
      [] r = "bills" ->
            <<F("bill"), W("sponsor_id", FALSE),
              F("cosponsors"), W("bill_cosponsors", FALSE),
              F("actions"), W("bill_actions", FALSE)>>

\* The bills for which the source returns something to write.
SrcHasDetail(b) ==
    /\ b.type \in {bill_types[1], "house", "senate"}
    /\ b.number \in 1..NumDetailed

\* A guard that raises one failure late, and one that raises at the first.
ChecksLate(error_count) == error_count > MAX_CONSECUTIVE_ERRORS
ChecksFirst(error_count) == error_count >= 1

\* check_consecutive_errors: TRUE when it raises SyncError.
check_consecutive_errors(error_count) == error_count >= MAX_CONSECUTIVE_ERRORS

\* The routines whose except clause counts errors and calls the guard;
\* sync_bill_details (lines 176-178) only logs and continues.
GuardedRoutines == DetailRoutines \cup {"member_votes"}
Guarded == routine \in GuardedRoutines

InLoop == routine \in GuardedRoutines \cup {"bills"} /\ pc = "loop"

\* A detail sync is entered: from_dt is looked up unless full.
SyncDetailStart ==
    /\ pc = "idle"
    /\ \E r \in DetailRoutines, full \in BOOLEAN :
          /\ RunReset(r, [full |-> full, with_details |-> FALSE])
          /\ from_dt' \in (IF full THEN {0} ELSE get_last_sync(EntityOf(r)))
    /\ UNCHANGED <<src, batch_size>>
    /\ pc' = "select"

\* sync_member_votes is entered from the command line (votes is None): it
\* looks up no cursor and records none.
SyncMemberVotesStart ==
    /\ pc = "idle"
    /\ RunReset("member_votes", NoOpts)
    /\ from_dt' = 0
    /\ UNCHANGED <<src, batch_size>>
    /\ pc' = "select"

\* The bills to process are selected; with none the routine returns, and
\* records no cursor.
SelectParents ==
    /\ routine \in GuardedRoutines
    /\ pc = "select"
    /\ parents' = IF routine = "member_votes"
                  THEN Limited(SelectVotes(store.votes, "house"), member_votes_limit)
                  ELSE SelectBills(store.bills, from_dt)
    /\ pc' = IF parents' = <<>> THEN "done" ELSE "loop"
    /\ UNCHANGED <<now, store, cursor, routine, opts, fetchVars, batchVars,
                   idx, step, consecutive_errors, inserted, histVars, nwrites,
                   stamped, clientVars, extVars, ghostVars, senateVars>>

\* sync_bills line 104: sync_bill_details(congress, bills) is entered with
\* the list that was fetched.
SyncBillDetailsStart ==
    /\ routine = "bills"
    /\ pc = "details"
    /\ parents' = fetched
    /\ idx' = 1
    /\ step' = 1
    /\ pc' = "loop"
    /\ UNCHANGED <<now, store, cursor, routine, opts, fetchVars, batchVars,
                   consecutive_errors, inserted, histVars, nwrites, stamped,
                   clientVars, extVars, ghostVars, senateVars>>

\* sync_bill_details lines 120-121: a bill with no number is passed over.
DetailSkip ==
    /\ InLoop
    /\ idx <= Len(parents)
    /\ parents[idx].number = 0
    /\ idx' = idx + 1
    /\ UNCHANGED <<now, store, cursor, routine, opts, pc, fetchVars, batchVars,
                   parents, step, consecutive_errors, inserted, histVars,
                   nwrites, stamped,
                   clientVars, extVars, ghostVars, senateVars>>

\* A request of the turn returns.
DetailFetch ==
    /\ InLoop
    /\ idx <= Len(parents)
    /\ parents[idx].number # 0
    /\ step <= Len(Plan(routine))
    /\ Plan(routine)[step].kind = "F"
    /\ step' = step + 1
    /\ UNCHANGED <<now, store, cursor, routine, opts, pc, fetchVars, batchVars,
                   parents, idx, consecutive_errors, inserted, histVars,
                   nwrites, stamped,
                   clientVars, extVars, ghostVars, senateVars>>

\* The writes that follow a request: they run outside any transaction, and
\* only when the response holds something to write.
DetailWrite ==
    /\ InLoop
    /\ idx <= Len(parents)
    /\ parents[idx].number # 0
    /\ step <= Len(Plan(routine))
    /\ Plan(routine)[step].kind = "W"
    /\ LET b == parents[idx]
           w == Plan(routine)[step]
       IN  IF SrcHasDetail(b)
           THEN /\ store' = [store EXCEPT !.cells =
                    ExecuteInto(@, @ \cup {<<b.type, b.number, w.what>>}, FALSE)]
                /\ nwrites' = nwrites + 1
                /\ inserted' = IF w.counted THEN inserted + 1 ELSE inserted
           ELSE UNCHANGED <<store, nwrites, inserted>>
    /\ step' = step + 1
    /\ UNCHANGED <<now, cursor, routine, opts, pc, fetchVars, batchVars,
                   parents, idx, consecutive_errors, histVars, stamped,
                   clientVars, extVars, ghostVars, senateVars>>

\* The turn ends without an exception: the guarded routines reset the count.
DetailParentDone ==
    /\ InLoop
    /\ idx <= Len(parents)
    /\ parents[idx].number # 0
    /\ step > Len(Plan(routine))
    /\ consecutive_errors' = IF Guarded THEN 0 ELSE consecutive_errors
    /\ run_failed' = 0
    /\ idx' = idx + 1
    /\ step' = 1
    /\ UNCHANGED <<now, store, cursor, routine, opts, pc, fetchVars, batchVars,
                   parents, inserted, histVars, nwrites, stamped, errors_total,
                   clientVars, extVars, senateVars>>

\* A request or a write of the turn raises: the except clause counts it,
\* the guard raises SyncError at the limit, otherwise the loop continues
\* with the next bill.
DetailError ==
    /\ InLoop
    /\ idx <= Len(parents)
    /\ parents[idx].number # 0
    /\ step <= Len(Plan(routine))
    /\ Plan(routine)[step].kind = "F" \/ SrcHasDetail(parents[idx])
    /\ IF Guarded
       THEN /\ consecutive_errors' = consecutive_errors + 1
            /\ IF check_consecutive_errors(consecutive_errors + 1)
               THEN /\ pc' = "raised"
                    /\ UNCHANGED <<idx, step>>
               ELSE /\ idx' = idx + 1
                    /\ step' = 1
                    /\ pc' = pc
       ELSE /\ idx' = idx + 1
            /\ step' = 1
            /\ UNCHANGED <<consecutive_errors, pc>>
    /\ run_failed' = run_failed + 1
    /\ errors_total' = errors_total + 1
    /\ UNCHANGED <<now, store, cursor, routine, opts, fetchVars, batchVars,
                   parents, inserted, histVars, nwrites, stamped, clientVars,
                   extVars, senateVars>>

\* The loop is over and the connection closed: a detail sync goes on to
\* set_last_sync, sync_bill_details returns and sync_bills with it.
DetailLoopEnd ==
    /\ InLoop
    /\ idx > Len(parents)
    /\ pc' = IF routine \in DetailRoutines THEN "cursor" ELSE "done"
    /\ UNCHANGED <<now, store, cursor, routine, opts, fetchVars, batchVars,
                   loopVars, inserted, histVars, nwrites, stamped,
                   clientVars, extVars, ghostVars, senateVars>>

-----------------------------------------------------------------------------
(***************************************************************************)
(* senate_client.py: SenateClient.get_vote_detail; sync_votes.py:          *)
(* sync_senate_member_votes.                                               *)
(***************************************************************************)
\* legislators.csv as _load_lis_to_bioguide returns it: lis_id -> bioguide_id.
LisMapping == [l \in {"S1", "S2"} |-> IF l = "S1" THEN "B1" ELSE "B2"]

\* The member elements a vote detail holds: lis_member_id and vote_cast
\* after strip(), either of which may be empty; S9 is in no mapping.
MemberKinds ==
    {[lis |-> "S1", cast |-> "Yea"], [lis |-> "S1", cast |-> "Nay"],
     [lis |-> "S9", cast |-> "Yea"], [lis |-> "S1", cast |-> ""],
     [lis |-> "", cast |-> "Yea"]}
SenateDetails == UNION {[1..n -> MemberKinds] : n \in 0..MaxMembers}

\* What the request of get_vote_detail ends in: an exception of httpx, a
\* body that does not parse, or the parsed document.
FetchErrors == {"HTTPError", "ParseError"}
Raised(e) == [kind |-> e, members |-> <<>>]
Element(ms) == [kind |-> "Element", members |-> ms]
FetchOutcomes(v) ==
    {Raised(e) : e \in FetchErrors}
        \cup {Element(ms) : ms \in (IF SrcHasDetail(v) THEN SenateDetails ELSE {<<>>})}

\* A client that lets the exception through.
get_vote_detail_raises(o) == o

\* get_vote_detail lines 49-55: the document, None for either error.
get_vote_detail(o) == IF o.kind \in FetchErrors THEN None ELSE o

\* A lookup that falls back on the identifier it was given.
lookup_or_same(mapping, lis_id) == IF lis_id \in DOMAIN mapping THEN mapping[lis_id] ELSE lis_id

\* lis_to_bioguide.get(lis_id): the bioguide_id, None ("") when there is none.
lis_lookup(mapping, lis_id) == IF lis_id \in DOMAIN mapping THEN mapping[lis_id] ELSE ""

\* Lines 457-462: Senate positions in the House wording.
NormalizePosition(vote_cast) ==
    CASE vote_cast = "Yea" -> "Yes"
      [] vote_cast = "Nay" -> "No"
      [] OTHER -> vote_cast

\* member_votes after INSERT OR REPLACE of (vote_id, bioguide_id, position).
UpsertPosition(cells, v, bioguide_id, position) ==
    {c \in cells : ~(c[1] = v.type /\ c[2] = v.number /\ c[3][1] = bioguide_id)}
        \cup {<<v.type, v.number, <<bioguide_id, position>>>>}

InSenate == routine = "senate_member_votes"

\* sync_senate_member_votes is entered (line 402).
SyncSenateMemberVotesStart ==
    /\ pc = "idle"
    /\ RunReset("senate_member_votes", NoOpts)
    /\ from_dt' = 0
    /\ UNCHANGED <<src, batch_size>>
    /\ pc' = "load"

\* Lines 412-430: the mapping is loaded and the Senate votes selected; with
\* no mapping or no vote the routine returns.
SenateLoad ==
    /\ InSenate
    /\ pc = "load"
    /\ lis_to_bioguide' \in {NoMapping, LisMapping}
    /\ IF lis_to_bioguide' = NoMapping
       THEN /\ parents' = parents
            /\ pc' = "done"
       ELSE /\ parents' = SelectVotes(store.votes, "senate")
            /\ pc' = IF parents' = <<>> THEN "done" ELSE "senate"
    /\ UNCHANGED <<now, store, cursor, routine, opts, fetchVars, batchVars,
                   idx, step, consecutive_errors, inserted, histVars, nwrites,
                   stamped, ghostVars, detail, unmatched_lis, clientVars,
                   extVars>>

\* Lines 438-443: the detail of the next vote is requested; None is passed
\* over.  An exception that get_vote_detail lets through leaves the routine.
SenateFetch ==
    /\ InSenate
    /\ pc = "senate"
    /\ idx <= Len(parents)
    /\ \E o \in FetchOutcomes(parents[idx]) :
          LET d == get_vote_detail(o)
          IN  IF d.kind \in FetchErrors
              THEN /\ pc' = "raised"
                   /\ UNCHANGED <<idx, step, detail, run_failed, errors_total>>
              ELSE IF d = None
              THEN /\ idx' = idx + 1
                   /\ run_failed' = run_failed + 1
                   /\ errors_total' = errors_total + 1
                   /\ UNCHANGED <<pc, step, detail>>
              ELSE /\ detail' = d
                   /\ step' = 1
                   /\ pc' = "members"
                   /\ UNCHANGED <<idx, run_failed, errors_total>>
    /\ UNCHANGED <<now, store, cursor, routine, opts, fetchVars, batchVars,
                   parents, consecutive_errors, inserted, histVars, nwrites,
                   stamped, lis_to_bioguide, unmatched_lis, clientVars,
                   extVars>>

\* Lines 444-472: the next member element: passed over when a field is
\* empty, noted as unmatched when the mapping has no entry, written
\* otherwise.
SenateMember ==
    /\ InSenate
    /\ pc = "members"
    /\ step <= Len(detail.members)
    /\ LET m == detail.members[step]
           bioguide_id == lis_lookup(lis_to_bioguide, m.lis)
       IN  IF m.lis = "" \/ m.cast = ""
           THEN UNCHANGED <<store, unmatched_lis, inserted, nwrites>>
           ELSE IF bioguide_id = ""
           THEN /\ unmatched_lis' = unmatched_lis \cup {m.lis}
                /\ UNCHANGED <<store, inserted, nwrites>>
           ELSE /\ store' = [store EXCEPT !.cells =
                    ExecuteInto(@, UpsertPosition(@, parents[idx], bioguide_id,
                                                  NormalizePosition(m.cast)),
                                FALSE)]
                /\ inserted' = inserted + 1
                /\ nwrites' = nwrites + 1
                /\ UNCHANGED unmatched_lis
    /\ step' = step + 1
    /\ UNCHANGED <<now, cursor, routine, opts, pc, fetchVars, batchVars,
                   parents, idx, consecutive_errors, histVars, stamped,
                   ghostVars, lis_to_bioguide, detail, clientVars, extVars>>

\* The INSERT of lines 464-471 raises; nothing catches it.
SenateWriteFails ==
    /\ InSenate
    /\ pc = "members"
    /\ step <= Len(detail.members)
    /\ detail.members[step].lis \in DOMAIN lis_to_bioguide
    /\ detail.members[step].cast # ""
    /\ pc' = "raised"
    /\ UNCHANGED <<now, store, cursor, routine, opts, fetchVars, batchVars,
                   loopVars, inserted, histVars, nwrites, stamped,
                   clientVars, extVars, ghostVars, senateVars>>

\* The last member element of the vote is done: on to the next vote.
SenateVoteDone ==
    /\ InSenate
    /\ pc = "members"
    /\ step > Len(detail.members)
    /\ idx' = idx + 1
    /\ step' = 1
    /\ detail' = None
    /\ run_failed' = 0
    /\ pc' = "senate"
    /\ UNCHANGED <<now, store, cursor, routine, opts, fetchVars, batchVars,
                   parents, consecutive_errors, inserted, histVars, nwrites,
                   stamped, errors_total, lis_to_bioguide, unmatched_lis,
                   clientVars, extVars>>

\* Lines 474-479: the loop is over, the connection is closed and the number
\* of unmatched identifiers reported.
SenateLoopEnd ==
    /\ InSenate
    /\ pc = "senate"
    /\ idx > Len(parents)
    /\ pc' = "done"
    /\ UNCHANGED <<now, store, cursor, routine, opts, fetchVars, batchVars,
                   loopVars, inserted, histVars, nwrites, stamped,
                   clientVars, extVars, ghostVars, senateVars>>

Next ==
    \/ SyncMembersStart
    \/ MembersFetch
    \/ FetchFails
    \/ BatchBegin
    \/ ExecRow
    \/ ExecFails
    \/ Commit
    \/ Rollback
    \/ BatchReturn
    \/ Kill
    \/ SyncBillsStart
    \/ BillsFetch
    \/ BillsWrite
    \/ BillsWriteFails
    \/ BillsWriteDone
    \/ SetCursor
    \/ SetCursorFails
    \/ SyncDetailStart
    \/ SyncMemberVotesStart
    \/ SelectParents
    \/ SyncBillDetailsStart
    \/ DetailSkip
    \/ DetailFetch
    \/ DetailWrite
    \/ DetailParentDone
    \/ DetailError
    \/ DetailLoopEnd
    \/ SyncSenateMemberVotesStart
    \/ SenateLoad
    \/ SenateFetch
    \/ SenateMember
    \/ SenateWriteFails
    \/ SenateVoteDone
    \/ SenateLoopEnd

\* A store and a cursor table, no routine running, the client idle.
Init ==
    /\ SyncInit
    /\ ClientIdle
    /\ ExtIdle

Spec == Init /\ [][Next]_vars

-----------------------------------------------------------------------------
(***************************************************************************)
(* Properties of the sync routines.                                        *)
(***************************************************************************)
\* The rows batch_execute has committed: those of the chunks before i.
Committed == ApplyRows(store0.members, SubSeq(rows, 1, Min(bi, Len(rows))), now)

\* C1: the cursor update of a run happens after all of the run's store
\* writes: once set_last_sync has run, no step of the run changes the store.
C1_CursorAfterWrites == [][stamped # {} => store' = store]_vars

\* C2: a routine that ends by raising (a failed page request, a write
\* error, SyncError from the guard) leaves the cursor table as it was when
\* the run started: same last_update_dt and record_count, no new row.
C2_RaiseKeepsCursor == pc = "raised" => cursor = cursor0

\* The guard has raised SyncError in a detail sync that had written rows and
\* whose entity had a cursor row.
C2_Witness ==
    /\ pc = "raised"
    /\ routine \in DetailRoutines
    /\ consecutive_errors = MAX_CONSECUTIVE_ERRORS
    /\ nwrites > 0
    /\ cursor0[EntityOf(routine)].present

\* C3: batch_execute works through consecutive chunks of batch_size, each
\* in a BEGIN/COMMIT of its own; when chunk k raises, the table holds
\* exactly the rows of chunks 1..k-1, chunk k was rolled back, no later
\* chunk was begun, and the exception has left the routine.
C3_ChunkRollback ==
    (routine = "members" /\ pc # "killed") =>
        /\ begins = commits + rollbacks + (IF pc \in {"exec", "rollback"} THEN 1 ELSE 0)
        /\ bi = commits * batch_size
        /\ total = Min(bi, Len(rows))
        /\ inTxn => pc \in {"exec", "rollback"}
        /\ rollbacks = 1 =>
              /\ pc = "raised"
              /\ ~inTxn
              /\ begins = commits + 1
              /\ store.members = Committed
              /\ cursor = cursor0
        /\ pc = "cursor" =>
              /\ rollbacks = 0
              /\ bi >= Len(rows)
              /\ store.members = ApplyRows(store0.members, rows, now)

\* The second chunk raised after one of its rows was executed.
C3_Witness ==
    /\ routine = "members"
    /\ pc = "raised"
    /\ rollbacks = 1
    /\ commits = 1
    /\ bj >= 1
    /\ store.members # store0.members

\* C4: killing the writer after batch k committed and before batch k+1
\* commits leaves exactly the rows of batches 1..k in the store and the
\* cursor table unmodified.
C4_KillKeepsCommitted ==
    pc = "killed" =>
        /\ store.members = Committed
        /\ bi = commits * batch_size
        /\ cursor = cursor0

\* The writer was killed inside the second batch, one of its rows executed.
C4_Witness ==
    /\ pc = "killed"
    /\ commits = 1
    /\ begins = 2
    /\ bj >= 1
    /\ cursor0["members"].present

\* C5: when the entity has a cursor T, every page request of its sync
\* carries fromDateTime = T, and none when it has no cursor.  For sync_bills
\* T is what the lookup returned.
C5_RequestsFiltered ==
    routine \in {"members", "bills"} =>
        LET row == cursor0[EntityOf(routine)]
            T == IF routine = "bills" THEN from_dt
                 ELSE IF row.present THEN row.last_update_dt ELSE 0
        IN  \A r \in reqs : r.fromDateTime = T

-----------------------------------------------------------------------------
(***************************************************************************)
(* client.py: _RateLimiter.wait called by the threads of one process, on   *)
(* the limiter of one CongressClient or of another.                        *)
(***************************************************************************)
\* A lock that lets every caller in.
AcquiresAlways(h) == TRUE

\* threading.Lock: `with self._lock` enters when no thread holds the lock.
CanAcquire(h) == h = NoThread

\* The threads inside the with block of a limiter's wait().
Inside(l) == {t \in Threads : tl[t] = l /\ tpc[t] \in {"read", "sleep", "stamp"}}

\* A thread calls wait() on the limiter of a client (line 32).
GateCall(t) ==
    /\ tpc[t] = "idle"
    /\ \E l \in Limiters : tl' = [tl EXCEPT ![t] = l]
    /\ tpc' = [tpc EXCEPT ![t] = "acquire"]
    /\ UNCHANGED <<gsince, sinceAny, holder, sleepLeft, gapL, procGap, returned,
                   notGate>>

\* Line 33: the thread acquires the lock.
GateAcquire(t) ==
    /\ tpc[t] = "acquire"
    /\ CanAcquire(holder[tl[t]])
    /\ holder' = [holder EXCEPT ![tl[t]] = t]
    /\ tpc' = [tpc EXCEPT ![t] = "read"]
    /\ UNCHANGED <<gsince, sinceAny, tl, sleepLeft, gapL, procGap, returned,
                   notGate>>

\* Lines 34-37: the clock is read and time.sleep called for what is left of
\* the interval.
GateRead(t) ==
    /\ tpc[t] = "read"
    /\ LET elapsed == gsince[tl[t]]
       IN  IF elapsed < min_interval
           THEN /\ sleepLeft' = [sleepLeft EXCEPT ![t] = min_interval - elapsed]
                /\ tpc' = [tpc EXCEPT ![t] = "sleep"]
           ELSE /\ sleepLeft' = sleepLeft
                /\ tpc' = [tpc EXCEPT ![t] = "stamp"]
    /\ UNCHANGED <<gsince, sinceAny, holder, tl, gapL, procGap, returned,
                   notGate>>

\* time.sleep returns, not before the time asked for has passed.
GateWake(t) ==
    /\ tpc[t] = "sleep"
    /\ sleepLeft[t] = 0
    /\ tpc' = [tpc EXCEPT ![t] = "stamp"]
    /\ UNCHANGED <<gsince, sinceAny, holder, tl, sleepLeft, gapL, procGap,
                   returned, notGate>>

\* Line 38 and the end of the with block: _last_call is set, the lock
\* released and wait() returns.
GateStamp(t) ==
    /\ tpc[t] = "stamp"
    /\ LET l == tl[t]
       IN  /\ gapL' = [gapL EXCEPT ![l] =
                         IF \E u \in Threads : <<u, l>> \in returned
                         THEN gsince[l] ELSE NoTime]
           /\ gsince' = [gsince EXCEPT ![l] = 0]
           /\ holder' = [holder EXCEPT ![l] = NoThread]
           /\ returned' = returned \cup {<<t, l>>}
    /\ procGap' = sinceAny
    /\ sinceAny' = 0
    /\ tpc' = [tpc EXCEPT ![t] = "idle"]
    /\ UNCHANGED <<tl, sleepLeft, notGate>>

\* A tick of the clock.
GateTick ==
    /\ gsince' = [l \in Limiters |-> Advance(gsince[l], 1)]
    /\ sinceAny' = Advance(sinceAny, 1)
    /\ sleepLeft' = [t \in Threads |->
                        IF tpc[t] = "sleep" THEN Remaining(sleepLeft[t], 1)
                        ELSE sleepLeft[t]]
    /\ UNCHANGED <<holder, tpc, tl, gapL, procGap, returned, notGate>>

GateNext ==
    \/ \E t \in Threads : GateCall(t)
    \/ \E t \in Threads : GateAcquire(t)
    \/ \E t \in Threads : GateRead(t)
    \/ \E t \in Threads : GateWake(t)
    \/ \E t \in Threads : GateStamp(t)
    \/ GateTick

\* The process starts: the monotonic clock reads anything, no thread is in
\* wait(), the client and the sync routine are at rest.
InitGate ==
    /\ \E m \in 0..TimerCap : GateStart(m)
    /\ ClientIdle
    /\ SyncIdle
    /\ CliIdle
    /\ ParseIdle
    /\ StatusIdle
    /\ QualityIdle
    /\ ConnIdle
    /\ VotesIdle
    /\ RunsIdle

SpecGate == InitGate /\ [][GateNext]_vars

\* C11: the pacing gate is shared by the whole process: any two consecutive
\* returns of wait(), through the same CongressClient or through different
\* ones, are at least the minimum interval apart.
C11_ProcessPaced == procGap # NoTime => procGap >= min_interval

\* C12: for any interleaving of threads calling wait() on one _RateLimiter,
\* at most one thread is inside the gate and no two of its calls return less
\* than the minimum interval apart.
C12_GateThreadSafe ==
    \A l \in Limiters :
        /\ Cardinality(Inside(l)) <= 1
        /\ Inside(l) = IF holder[l] = NoThread THEN {} ELSE {holder[l]}
        /\ gapL[l] # NoTime => gapL[l] >= min_interval

\* Two threads have returned from the same limiter, the second one the
\* minimum interval after the first, while the other thread is back waiting
\* for the lock that the sleeping one holds.
C12_Witness ==
    \E l \in Limiters : \E t, u \in Threads :
        /\ t # u
        /\ {<<t, l>>, <<u, l>>} \subseteq returned
        /\ gapL[l] = min_interval
        /\ tl[t] = l /\ tpc[t] = "sleep"
        /\ tl[u] = l /\ tpc[u] = "acquire"

-----------------------------------------------------------------------------
(***************************************************************************)
(* Properties of the detail loops.                                         *)
(***************************************************************************)
\* The writes of one turn of the loop for parent b, as rows of cells.
RowsOf(b) ==
    {<<b.type, b.number, Plan(routine)[k].what>> :
        k \in {j \in 1..Len(Plan(routine)) : Plan(routine)[j].kind = "W"}}

C14_UnbrokenRunAborts == run_failed >= MAX_CONSECUTIVE_ERRORS => pc = "raised"

-----------------------------------------------------------------------------
(***************************************************************************)
(* Properties of sync_senate_member_votes.                                 *)
(***************************************************************************)
\* The member elements of a vote detail that carry both fields and whose
\* identifier the mapping knows.
Mapped(ms) ==
    {k \in 1..Len(ms) :
        ms[k].lis # "" /\ ms[k].cast # "" /\ ms[k].lis \in DOMAIN lis_to_bioguide}

\* The rows a vote with these member elements leaves in member_votes: for
\* each canonical identifier the position of its last element.
PositionRows(v, ms) ==
    {<<v.type, v.number, <<lis_to_bioguide[ms[k].lis], NormalizePosition(ms[k].cast)>>>> :
        k \in {j \in Mapped(ms) :
                 \A j2 \in Mapped(ms) : ms[j2].lis = ms[j].lis => j2 <= j}}

\* C17: get_vote_detail gives None for a network or parse failure and the
\* routine passes such a vote over: the fetch never makes the routine raise,
\* a vote that gave None changes nothing and the loop goes on with the next,
\* the positions of every other vote are written, no row is lost, and the
\* run ends only after the last vote.
C17_EmptyIsSkipped ==
    /\ []((InSenate /\ pc = "raised") =>
            (detail # None /\ step <= Len(detail.members)))
    /\ [][(InSenate /\ pc = "senate" /\ idx <= Len(parents)) =>
             /\ pc' \in {"senate", "members"}
             /\ pc' = "senate" => (idx' = idx + 1 /\ store' = store)
             /\ pc' = "members" => idx' = idx
         ]_vars
    /\ [][(InSenate /\ pc = "members" /\ pc' = "senate") =>
             /\ idx' = idx + 1
             /\ PositionRows(parents[idx], detail.members) \subseteq store'.cells
         ]_vars
    /\ [][InSenate =>
             \A c \in store.cells : \E c2 \in store'.cells :
                 c2[1] = c[1] /\ c2[2] = c[2] /\ c2[3][1] = c[3][1]
         ]_vars
    /\ [][(InSenate /\ pc' = "done" /\ pc = "senate") => idx > Len(parents)]_vars

\* The first vote gave None, the second one gave positions, and they are in
\* the store.
C17_Witness ==
    /\ InSenate
    /\ pc = "senate"
    /\ idx = 3
    /\ errors_total = 1
    /\ run_failed = 0
    /\ \E c \in store.cells : c[1] = "senate" /\ c[2] = 2
    /\ ~\E c \in store.cells : c[1] = "senate" /\ c[2] = 1

-----------------------------------------------------------------------------
(***************************************************************************)
(* Running a sync again.                                                   *)
(***************************************************************************)
\* Every record the finished run wrote was already in the store when the
\* run started: the run repeats an earlier one against the same source.
Rerun ==
    /\ pc = "done"
    /\ nwrites > 0
    /\ \/ /\ routine = "members"
          /\ \A k \in 1..Len(rows) : store0.members[rows[k]] # 0
       \/ /\ routine = "bills"
          /\ ~opts.with_details
          /\ \A k \in 1..Len(fetched) :
                fetched[k].number # 0 =>
                    store0.bills[<<fetched[k].type, fetched[k].number>>] # 0

\* C20: a sync run again against an unchanged source leaves the same rows
\* with the same content: it adds no row and changes no stored field.
C20_Idempotent == Rerun => store = store0

-----------------------------------------------------------------------------
(***************************************************************************)
(* cli.py: the command sync.                                               *)
(***************************************************************************)
\* Lines 66-70: the targets of `all`, in the order they run.
AllTargets ==
    <<"members", "enrich-members", "bills", "cosponsors", "actions",
      "subjects", "summaries", "votes", "member-votes",
      "senate-votes", "senate-member-votes", "committees", "load-zips">>

\* The targets the if/elif chain of lines 81-131 knows.
KnownTargets == {AllTargets[k] : k \in 1..Len(AllTargets)}

\* The targets whose routine calls check_consecutive_errors.
GuardedTargets ==
    {"cosponsors", "actions", "subjects", "summaries", "member-votes"}

\* What the user may type as target, and as --congress and --from-congress
\* (0: the option is not given).
TargetArgs == KnownTargets \cup {"all", "nothing"}
CongressArgs == {118}
FromCongressArgs == {0, 117, 118, 119}

\* list(range(a, b + 1)).
Range(a, b) == [k \in 1..Max(b + 1 - a, 0) |-> a + k - 1]

\* The position after target tj of congress ci.
Advance2(c, t) == IF t < Len(targets) THEN <<c, t + 1>> ELSE <<c + 1, 1>>

\* Lines 64-72: the command is invoked.
CliSync ==
    /\ cli_pc = "idle"
    /\ \E target \in TargetArgs, congress \in CongressArgs,
          from_congress \in FromCongressArgs :
          /\ congresses' = IF from_congress # 0
                           THEN Range(from_congress, congress)
                           ELSE <<congress>>
          /\ targets' = IF target = "all" THEN AllTargets ELSE <<target>>
    /\ ci' = 1
    /\ tj' = 1
    /\ cli_pc' = "loop"
    /\ UNCHANGED <<completed, cli_exit, notCli>>

\* Lines 81-134: the routine of the current target returns.
CliTargetCompletes ==
    /\ cli_pc = "loop"
    /\ ci <= Len(congresses)
    /\ targets[tj] \in KnownTargets
    /\ completed' = Append(completed, <<targets[tj], congresses[ci]>>)
    /\ ci' = Advance2(ci, tj)[1]
    /\ tj' = Advance2(ci, tj)[2]
    /\ UNCHANGED <<cli_pc, congresses, targets, cli_exit, notCli>>

\* The routine of the current target raises: SyncError from the guard, or
\* any other exception (a failed page request, a write error).  No try
\* statement surrounds the calls of lines 82-132, so the exception leaves
\* sync() and ends the process.
CliTargetRaises ==
    /\ cli_pc = "loop"
    /\ ci <= Len(congresses)
    /\ targets[tj] \in KnownTargets
    /\ \E e \in {"SyncError", "Exception"} :
          /\ e = "SyncError" => targets[tj] \in GuardedTargets
          /\ cli_exit' = e
    /\ cli_pc' = "exited"
    /\ UNCHANGED <<congresses, targets, ci, tj, completed, notCli>>

\* Lines 132-134: an unknown target ends the command with typer.Exit(1).
CliUnknownTarget ==
    /\ cli_pc = "loop"
    /\ ci <= Len(congresses)
    /\ targets[tj] \notin KnownTargets
    /\ cli_exit' = "Exit(1)"
    /\ cli_pc' = "exited"
    /\ UNCHANGED <<congresses, targets, ci, tj, completed, notCli>>

\* Both loops are over: the command returns.
CliReturn ==
    /\ cli_pc = "loop"
    /\ ci > Len(congresses)
    /\ cli_exit' = "ok"
    /\ cli_pc' = "exited"
    /\ UNCHANGED <<congresses, targets, ci, tj, completed, notCli>>

CliNext ==
    \/ CliSync
    \/ CliTargetCompletes
    \/ CliTargetRaises
    \/ CliUnknownTarget
    \/ CliReturn

InitCli ==
    /\ CliIdle
    /\ ParseIdle
    /\ GateIdle
    /\ ClientIdle
    /\ SyncIdle
    /\ StatusIdle
    /\ QualityIdle
    /\ ConnIdle
    /\ VotesIdle
    /\ RunsIdle

SpecCli == InitCli /\ [][CliNext]_vars

\* The <<t, c>> that come after position <<ci, tj>> in the invocation.
After ==
    {<<targets[t], congresses[c]>> :
        c \in {x \in 1..Len(congresses) : x >= ci},
        t \in {y \in 1..Len(targets) : TRUE}}
        \ {<<targets[t], congresses[ci]>> : t \in 1..Min(tj, Len(targets))}

\* C15: SyncError aborts only the entity sync that raised it: when the
\* process ends after a trip, the targets that came after the tripped one in
\* the invocation have run.
C15_TripIsLocal ==
    (cli_pc = "exited" /\ cli_exit = "SyncError") =>
        \A p \in After : \E k \in 1..Len(completed) : completed[k] = p

-----------------------------------------------------------------------------
(***************************************************************************)
(* sync_votes.py: bill references.  A Python string is the sequence of its *)
(* characters; None and the empty string are both <<>>, which the code     *)
(* tests the same way (`if not issue`, `if not bill_type`).                *)
(***************************************************************************)
DigitChars == <<"0", "1", "2", "3", "4", "5", "6", "7", "8", "9">>

DecimalDigit(c) == \E d \in 1..Len(DigitChars) : DigitChars[d] = c

DigitValue(c) == (CHOOSE d \in 1..Len(DigitChars) : DigitChars[d] = c) - 1

\* What str.strip() removes, what \s matches and what int() skips.
Whitespace == {" ", "\t", "\n"}

RECURSIVE lstrip(_)
lstrip(s) ==
    IF s # <<>> /\ Head(s) \in Whitespace THEN lstrip(Tail(s)) ELSE s

RECURSIVE rstrip(_)
rstrip(s) ==
    IF s # <<>> /\ s[Len(s)] \in Whitespace
    THEN rstrip(SubSeq(s, 1, Len(s) - 1))
    ELSE s

strip(s) == rstrip(lstrip(s))

\* \d+ against the whole of s.
AllDigits(s) == s # <<>> /\ \A k \in 1..Len(s) : DecimalDigit(s[k])

StartsWith(s, lit) == Len(s) >= Len(lit) /\ SubSeq(s, 1, Len(lit)) = lit

\* Lines 21-32.
_LEG_TYPE_MAP ==
    <<<<<<"H", "R">>, <<"h", "r">>>>,
      <<<<"S">>, <<"s">>>>,
      <<<<"H", "J", "R", "E", "S">>, <<"h", "j", "r", "e", "s">>>>,
      <<<<"S", "J", "R", "E", "S">>, <<"s", "j", "r", "e", "s">>>>,
      <<<<"H", "C", "O", "N", "R", "E", "S">>, <<"h", "c", "o", "n", "r", "e", "s">>>>,
      <<<<"S", "C", "O", "N", "R", "E", "S">>, <<"s", "c", "o", "n", "r", "e", "s">>>>,
      <<<<"H", "R", "E", "S">>, <<"h", "r", "e", "s">>>>,
      <<<<"S", "R", "E", "S">>, <<"s", "r", "e", "s">>>>,
      <<<<"H", ".", "R", ".">>, <<"h", "r">>>>,
      <<<<"S", ".">>, <<"s">>>>>>

\* dict.get(key): the value, or None.
LegTypeGet(key) ==
    LET K == {k \in 1..Len(_LEG_TYPE_MAP) : _LEG_TYPE_MAP[k][1] = key}
    IN  IF K = {} THEN <<>> ELSE _LEG_TYPE_MAP[CHOOSE k \in K : TRUE][2]

\* Lines 35-46: the literal each alternative of _SENATE_ISSUE_RE starts with;
\* each is followed by \s*(\d+), and the whole is anchored by ^ and $.
SenateIssueLiterals ==
    <<<<"H", ".", "R", ".">>,
      <<"S", ".">>,
      <<"H", ".", "J", ".", "R", "e", "s", ".">>,
      <<"S", ".", "J", ".", "R", "e", "s", ".">>,
      <<"H", ".", "C", "o", "n", ".", "R", "e", "s", ".">>,
      <<"S", ".", "C", "o", "n", ".", "R", "e", "s", ".">>,
      <<"H", ".", "R", "e", "s", ".">>,
      <<"S", ".", "R", "e", "s", ".">>>>

\* Lines 48-50.
_SENATE_ISSUE_TYPES ==
    <<<<"h", "r">>,
      <<"s">>,
      <<"h", "j", "r", "e", "s">>,
      <<"s", "j", "r", "e", "s">>,
      <<"h", "c", "o", "n", "r", "e", "s">>,
      <<"s", "c", "o", "n", "r", "e", "s">>,
      <<"h", "r", "e", "s">>,
      <<"s", "r", "e", "s">>>>

\* The group of alternative k when it matches the whole of s, else None.
GroupOf(s, k) ==
    LET lit == SenateIssueLiterals[k]
        rest == lstrip(SubSeq(s, Len(lit) + 1, Len(s)))
    IN  IF StartsWith(s, lit) /\ AllDigits(rest) THEN rest ELSE <<>>

\* _SENATE_ISSUE_RE.match(s).groups(): the first alternative that matches
\* fills its group, the other groups are None; <<>> when nothing matches.
SenateIssueMatch(s) ==
    LET K == {k \in 1..Len(SenateIssueLiterals) : GroupOf(s, k) # <<>>}
        first == CHOOSE k \in K : \A j \in K : k <= j
    IN  IF K = {}
        THEN <<>>
        ELSE [k \in 1..Len(SenateIssueLiterals) |->
                 IF k = first THEN GroupOf(s, k) ELSE <<>>]

\* str(n) of an integer.
RECURSIVE str(_)
str(n) ==
    IF n < 0 THEN <<"-">> \o str(0 - n)
    ELSE IF n < 10 THEN <<DigitChars[n + 1]>>
    ELSE str(n \div 10) \o <<DigitChars[(n % 10) + 1]>>

RECURSIVE DecimalValue(_)
DecimalValue(ds) ==
    IF ds = <<>> THEN 0
    ELSE 10 * DecimalValue(SubSeq(ds, 1, Len(ds) - 1)) + DigitValue(ds[Len(ds)])

ValueError == [ok |-> FALSE, val |-> 0]

\* int(s) of a string: surrounding whitespace is skipped, one sign is
\* allowed, and single underscores may separate the digits.
int(s) ==
    LET t == strip(s)
        signed == t # <<>> /\ Head(t) \in {"+", "-"}
        body == IF signed THEN Tail(t) ELSE t
        valid ==
            /\ body # <<>>
            /\ DecimalDigit(body[1])
            /\ DecimalDigit(body[Len(body)])
            /\ \A k \in 1..Len(body) :
                  \/ DecimalDigit(body[k])
                  \/ body[k] = "_" /\ k > 1 /\ DecimalDigit(body[k - 1])
        magnitude == DecimalValue(SelectSeq(body, DecimalDigit))
    IN  IF ~valid THEN ValueError
        ELSE [ok |-> TRUE,
              val |-> IF Head(t) = "-" THEN 0 - magnitude ELSE magnitude]

\* f"{congress}-{bill_type}-{number}".
FormatBillId(congress, bill_type, number) ==
    str(congress) \o <<"-">> \o bill_type \o <<"-">> \o number

\* Lines 56-67.
_build_house_bill_id(congress, lt, ln) ==
    IF lt = <<>> \/ ln = <<>> THEN <<>>
    ELSE LET bill_type == LegTypeGet(strip(lt))
         IN  IF bill_type = <<>> THEN <<>>
             ELSE LET num == int(ln)
                  IN  IF ~num.ok THEN <<>>
                      ELSE FormatBillId(congress, bill_type, str(num.val))

\* Lines 70-86.
_parse_senate_issue(congress, iss) ==
    IF iss = <<>> THEN <<>>
    ELSE LET m == SenateIssueMatch(strip(iss))
             K == {k \in 1..Len(m) : m[k] # <<>>}
             first == CHOOSE k \in K : \A j \in K : k <= j
         IN  IF m = <<>> \/ K = {} THEN <<>>
             ELSE FormatBillId(congress, _SENATE_ISSUE_TYPES[first], m[first])

\* The texts the arguments are put together from.
TypeTexts ==
    {SenateIssueLiterals[k] : k \in 1..Len(SenateIssueLiterals)}
        \cup {_LEG_TYPE_MAP[k][1] : k \in 1..Len(_LEG_TYPE_MAP)}
        \cup {<<>>, <<"P", "N">>, <<"h", ".", "r", ".">>, <<"h", "r">>, <<"H", ".", "R">>, <<"S", ".", "A", "m", "d", "t", ".">>, <<"T", "r", "e", "a", "t", "y", " ", "D", "o", "c", ".">>}
GapTexts == {<<>>, <<" ">>, <<"\t">>}
NumberTexts ==
    {<<>>,
     <<"1", "2", "3", "4">>,
     <<"3", "6">>,
     <<"0">>,
     <<"0", "0", "7">>,
     <<"-", "5">>,
     <<"+", "7">>,
     <<"1", "_", "0">>,
     <<"1", "2", "a">>,
     <<" ", "7">>,
     <<"1", ".", "5">>}
TailTexts == {<<>>, <<" ">>, <<"x">>}
CongressNumbers == {117, 118}

IssueArgs ==
    {a \o b \o c \o d :
        a \in TypeTexts, b \in GapTexts, c \in NumberTexts, d \in TailTexts}
LegTypeArgs == {a \o d : a \in TypeTexts, d \in {<<>>, <<" ">>}}
LegNumArgs == NumberTexts

\* _parse_senate_issue is called with some arguments.
CallParseSenateIssue ==
    /\ parse_pc = "idle"
    /\ congress_arg' \in CongressNumbers
    /\ issue' \in IssueArgs
    /\ parse_pc' = "_parse_senate_issue"
    /\ UNCHANGED <<leg_type, leg_num, senate_bill_id, house_bill_id,
                   notParse>>

\* It returns.
ParseSenateIssue ==
    /\ parse_pc = "_parse_senate_issue"
    /\ senate_bill_id' = _parse_senate_issue(congress_arg, issue)
    /\ parse_pc' = "parsed"
    /\ UNCHANGED <<congress_arg, issue, leg_type, leg_num, house_bill_id,
                   notParse>>

\* _build_house_bill_id is called with some arguments.
CallBuildHouseBillId ==
    /\ parse_pc = "idle"
    /\ congress_arg' \in CongressNumbers
    /\ leg_type' \in LegTypeArgs
    /\ leg_num' \in LegNumArgs
    /\ parse_pc' = "_build_house_bill_id"
    /\ UNCHANGED <<issue, senate_bill_id, house_bill_id, notParse>>

\* It returns.
BuildHouseBillId ==
    /\ parse_pc = "_build_house_bill_id"
    /\ house_bill_id' = _build_house_bill_id(congress_arg, leg_type, leg_num)
    /\ parse_pc' = "built"
    /\ UNCHANGED <<congress_arg, issue, leg_type, leg_num, senate_bill_id,
                   notParse>>

ParseNext ==
    \/ CallParseSenateIssue
    \/ ParseSenateIssue
    \/ CallBuildHouseBillId
    \/ BuildHouseBillId

InitParse ==
    /\ ParseIdle
    /\ CliIdle
    /\ GateIdle
    /\ ClientIdle
    /\ SyncIdle
    /\ StatusIdle
    /\ QualityIdle
    /\ ConnIdle
    /\ VotesIdle
    /\ RunsIdle

SpecParse == InitParse /\ [][ParseNext]_vars

\* A text is a type followed by a number: one of the eight written forms,
\* optional blanks, and decimal digits.
TypeThenNumber(forms, s) ==
    \E f \in forms :
        /\ StartsWith(s, f)
        /\ AllDigits(lstrip(SubSeq(s, Len(f) + 1, Len(s))))

\* C19: the parsers know the eight types and fail closed: "H.R. 1234" of
\* congress 118 gives 118-hr-1234, "PN36" gives None, and an argument that is
\* not one of the types followed by a number gives None.
C19_FailsClosed ==
    /\ parse_pc = "parsed" =>
          /\ (issue = <<"H", ".", "R", ".", " ", "1", "2", "3", "4">> /\ congress_arg = 118) =>
                senate_bill_id = <<"1", "1", "8", "-", "h", "r", "-", "1", "2", "3", "4">>
          /\ issue = <<"P", "N", "3", "6">> => senate_bill_id = <<>>
          /\ senate_bill_id # <<>> =>
                TypeThenNumber({SenateIssueLiterals[k] :
                                   k \in 1..Len(SenateIssueLiterals)},
                               strip(issue))
    /\ parse_pc = "built" =>
          (house_bill_id # <<>> =>
              /\ LegTypeGet(strip(leg_type)) # <<>>
              /\ AllDigits(leg_num))

-----------------------------------------------------------------------------
(***************************************************************************)
(* sync_bills.py: determine_status.  Texts are sequences of characters;    *)
(* None and "" are both <<>> (`if not action_text`).                       *)
(***************************************************************************)
UpperChars == <<"A", "B", "C", "D", "E", "F", "G", "H", "I", "J", "K", "L", "M">>
    \o <<"N", "O", "P", "Q", "R", "S", "T", "U", "V", "W", "X", "Y", "Z">>
LowerChars == <<"a", "b", "c", "d", "e", "f", "g", "h", "i", "j", "k", "l", "m">>
    \o <<"n", "o", "p", "q", "r", "s", "t", "u", "v", "w", "x", "y", "z">>

\* str.lower().
lower(s) ==
    [k \in 1..Len(s) |->
        IF \E u \in 1..Len(UpperChars) : UpperChars[u] = s[k]
        THEN LowerChars[CHOOSE u \in 1..Len(UpperChars) : UpperChars[u] = s[k]]
        ELSE s[k]]

\* sub in s.
Contains(s, sub) ==
    \E k \in 0..(Len(s) - Len(sub)) : SubSeq(s, k + 1, k + Len(sub)) = sub

\* The keywords of lines 485-493.
KwPublicLaw == <<"b", "e", "c", "a", "m", "e", " ", "p", "u", "b", "l", "i", "c", " ", "l", "a", "w">>
KwSigned == <<"s", "i", "g", "n", "e", "d", " ", "b", "y", " ", "p", "r", "e", "s", "i", "d", "e", "n", "t">>
KwVetoed == <<"v", "e", "t", "o", "e", "d">>
KwPassedSenate == <<"p", "a", "s", "s", "e", "d", " ", "s", "e", "n", "a", "t", "e">>
KwPassedHouse == <<"p", "a", "s", "s", "e", "d", " ", "h", "o", "u", "s", "e">>
KwReferred == <<"r", "e", "f", "e", "r", "r", "e", "d", " ", "t", "o">>
KwCommittee == <<"c", "o", "m", "m", "i", "t", "t", "e", "e">>

\* Lines 479-497.
determine_status(text) ==
    IF text = <<>> THEN "introduced"
    ELSE LET action_lower == lower(text)
         IN  IF Contains(action_lower, KwPublicLaw)
                   \/ Contains(action_lower, KwSigned)
             THEN "enacted"
             ELSE IF Contains(action_lower, KwVetoed) THEN "vetoed"
             ELSE IF Contains(action_lower, KwPassedSenate) THEN "passed_senate"
             ELSE IF Contains(action_lower, KwPassedHouse) THEN "passed_house"
             ELSE IF Contains(action_lower, KwReferred)
                        /\ Contains(action_lower, KwCommittee)
             THEN "in_committee"
             ELSE "introduced"

\* The sentences latest-action texts are put together from.
Sentences ==
    {<<"B", "e", "c", "a", "m", "e", " ", "P", "u", "b", "l", "i", "c", " ", "L", "a", "w", " ", "N", "o", ".", " ", "1", "1", "8", "-", "1", ".">>,
     <<"S", "i", "g", "n", "e", "d", " ", "b", "y", " ", "P", "r", "e", "s", "i", "d", "e", "n", "t", ".">>,
     <<"V", "e", "t", "o", "e", "d", " ", "b", "y", " ", "P", "r", "e", "s", "i", "d", "e", "n", "t", ".">>,
     <<"P", "a", "s", "s", "e", "d", " ", "S", "e", "n", "a", "t", "e", " ", "w", "i", "t", "h", " ", "a", "n", " ", "a", "m", "e", "n", "d", "m", "e", "n", "t", ".">>,
     <<"P", "a", "s", "s", "e", "d", " ", "H", "o", "u", "s", "e", " ", "b", "y", " ", "v", "o", "i", "c", "e", " ", "v", "o", "t", "e", ".">>,
     <<"P", "A", "S", "S", "E", "D", " ", "S", "E", "N", "A", "T", "E">>,
     <<"R", "e", "f", "e", "r", "r", "e", "d", " ", "t", "o", " ", "t", "h", "e", " ", "C", "o", "m", "m", "i", "t", "t", "e", "e", " ", "o", "n", " ", "R", "u", "l", "e", "s", ".">>,
     <<"R", "e", "f", "e", "r", "r", "e", "d", " ", "t", "o", " ", "t", "h", "e", " ", "S", "u", "b", "c", "o", "m", "m", "i", "t", "t", "e", "e", " ", "o", "n", " ", "H", "e", "a", "l", "t", "h", ".">>,
     <<"C", "o", "m", "m", "i", "t", "t", "e", "e", " ", "o", "n", " ", "F", "i", "n", "a", "n", "c", "e", " ", "d", "i", "s", "c", "h", "a", "r", "g", "e", "d", ".">>,
     <<"I", "n", "t", "r", "o", "d", "u", "c", "e", "d", " ", "i", "n", " ", "H", "o", "u", "s", "e">>}

MaxSentences == 2

RECURSIVE TextsOf(_)
TextsOf(n) ==
    IF n = 0 THEN {<<>>}
    ELSE TextsOf(n - 1) \cup
         {IF t = <<>> THEN p ELSE t \o <<" ">> \o p :
             t \in TextsOf(n - 1), p \in Sentences}

ActionTexts == TextsOf(MaxSentences)

\* determine_status is called with some text.
CallDetermineStatus ==
    /\ status_pc = "idle"
    /\ action_text' \in ActionTexts
    /\ status_pc' = "determine_status"
    /\ UNCHANGED <<bill_status, notStatus>>

\* It returns.
DetermineStatus ==
    /\ status_pc = "determine_status"
    /\ bill_status' = determine_status(action_text)
    /\ status_pc' = "returned"
    /\ UNCHANGED <<action_text, notStatus>>

StatusNext ==
    \/ CallDetermineStatus
    \/ DetermineStatus

InitStatus ==
    /\ StatusIdle
    /\ ParseIdle
    /\ CliIdle
    /\ GateIdle
    /\ ClientIdle
    /\ SyncIdle
    /\ QualityIdle
    /\ ConnIdle
    /\ VotesIdle
    /\ RunsIdle

SpecStatus == InitStatus /\ [][StatusNext]_vars

\* The levels of the precedence, highest first, as the text's keywords give
\* them: the level of a text is the first whose keywords it holds.
LevelOf(text) ==
    LET t == lower(text)
    IN  IF Contains(t, KwPublicLaw) \/ Contains(t, KwSigned) THEN "enacted"
        ELSE IF Contains(t, KwVetoed) THEN "vetoed"
        ELSE IF Contains(t, KwPassedSenate) /\ Contains(t, KwPassedHouse)
        THEN "passed both chambers"
        ELSE IF Contains(t, KwPassedSenate) \/ Contains(t, KwPassedHouse)
        THEN "passed one chamber"
        ELSE IF Contains(t, KwReferred) /\ Contains(t, KwCommittee)
        THEN "in committee"
        ELSE "introduced"

\* The statuses that stand for each level.
StatusesOf ==
    [enacted |-> {"enacted"},
     vetoed |-> {"vetoed"},
     passed_both |-> {"passed", "passed_both"},
     passed_one |-> {"passed_senate", "passed_house"},
     in_committee |-> {"in_committee"},
     introduced |-> {"introduced"}]

\* C21: the status is the one of the first matching level of enacted >
\* vetoed > passed both chambers > passed one chamber > in committee >
\* introduced; "Became Public Law No. 118-1" is enacted, "Referred to the
\* Committee on..." is in_committee, and an empty text is introduced.
C21_Precedence ==
    status_pc = "returned" =>
        /\ action_text = <<"B", "e", "c", "a", "m", "e", " ", "P", "u", "b", "l", "i", "c", " ", "L", "a", "w", " ", "N", "o", ".", " ", "1", "1", "8", "-", "1", ".">> =>
              bill_status = "enacted"
        /\ action_text = <<"R", "e", "f", "e", "r", "r", "e", "d", " ", "t", "o", " ", "t", "h", "e", " ", "C", "o", "m", "m", "i", "t", "t", "e", "e", " ", "o", "n", " ", "R", "u", "l", "e", "s", ".">> =>
              bill_status = "in_committee"
        /\ action_text = <<>> => bill_status = "introduced"
        /\ bill_status \in
              (CASE LevelOf(action_text) = "enacted" -> StatusesOf.enacted
                 [] LevelOf(action_text) = "vetoed" -> StatusesOf.vetoed
                 [] LevelOf(action_text) = "passed both chambers" ->
                        StatusesOf.passed_both
                 [] LevelOf(action_text) = "passed one chamber" ->
                        StatusesOf.passed_one
                 [] LevelOf(action_text) = "in committee" ->
                        StatusesOf.in_committee
                 [] OTHER -> StatusesOf.introduced)

-----------------------------------------------------------------------------
(***************************************************************************)
(* quality.py: the quality gate.  A CheckResult is a record; its detail    *)
(* keeps the numbers the f-string prints.                                  *)
(***************************************************************************)
\* Lines 27-38, in the order of the dict.
_MIN_ROWS ==
    <<<<"members", 500>>, <<"bills", 100>>, <<"votes", 50>>,
      <<"member_votes", 100>>, <<"bill_cosponsors", 50>>,
      <<"bill_actions", 50>>, <<"bill_subjects", 50>>, <<"committees", 10>>,
      <<"committee_members", 10>>, <<"zip_districts", 40000>>>>

\* Lines 41-45, flattened in the order of the two loops of lines 107-108.
_NOT_ALL_NULL ==
    <<<<"members", "party">>, <<"members", "state">>, <<"members", "chamber">>,
      <<"bills", "title">>, <<"bills", "status">>,
      <<"votes", "vote_date">>, <<"votes", "chamber">>>>

QualityTables == {_MIN_ROWS[k][1] : k \in 1..Len(_MIN_ROWS)}

\* Lines 146-150.
entity_to_table ==
    [base \in {"members", "bills", "votes"} |-> base]

\* An entity key is the sequence of its parts between "-": "bills-118" is
\* <<"bills", "118">>.  Line 154: entity.split("-")[0].
BaseOf(entity) == entity[1]

\* The entities of sync_meta, in the order the SELECT of line 140 gives them.
MetaEntities ==
    <<<<"members">>, <<"bills", "118">>, <<"cosponsors", "118">>>>

NoCount == 0 - 1

\* What the store may hold when the gate runs.
CountValues == {0, 400, 499, 500, 600}
LastCountValues == {NoCount, 0, 999, 1000, 1001}

\* SELECT count(*) FROM table: the count, or an error for a missing table.
CountRows(table) ==
    IF table \in q_missing THEN [error |-> TRUE, count |-> 0]
    ELSE [error |-> FALSE, count |-> q_rows[table]]

\* SELECT count(*) FROM table WHERE col IS NOT NULL.
CountNonNull(table, col) ==
    IF table \in q_missing THEN [error |-> TRUE, count |-> 0]
    ELSE [error |-> FALSE,
          count |-> IF <<table, col>> \in q_nullcols THEN 0 ELSE q_rows[table]]

CheckResult(table, check, passed, info) ==
    [table |-> table, check |-> check, passed |-> passed, detail |-> info]

ErrorDetail == [error |-> TRUE]

\* A loop body that lets the query error out of the loop: nothing is appended.
min_rows_unguarded(item) ==
    LET q == CountRows(item[1])
    IN  IF q.error THEN <<>>
        ELSE <<CheckResult(item[1], <<"min_rows">>, q.count >= item[2],
                           [count |-> q.count, min |-> item[2]])>>

\* Lines 84-99: what one turn of the loop appends.
min_rows_result(item) ==
    LET q == CountRows(item[1])
    IN  IF q.error
        THEN <<CheckResult(item[1], <<"min_rows">>, FALSE, ErrorDetail)>>
        ELSE <<CheckResult(item[1], <<"min_rows">>, q.count >= item[2],
                           [count |-> q.count, min |-> item[2]])>>

\* Lines 109-127: what one turn of the inner loop appends.
not_all_null_result(item) ==
    LET q == CountNonNull(item[1], item[2])
    IN  IF q.error
        THEN <<CheckResult(item[1], <<"not_all_null", item[2]>>, FALSE,
                           ErrorDetail)>>
        ELSE <<CheckResult(item[1], <<"not_all_null", item[2]>>, q.count > 0,
                           [non_null |-> q.count])>>

\* A comparison that also flags a count of exactly one half.
AtMostHalf(current, last_count) == 2 * current <= last_count

\* Line 162: current < last_count * 0.5.  The product is exact in binary
\* floating point, so the test is 2 * current < last_count.
LessThanHalf(current, last_count) == 2 * current < last_count

\* Lines 152-177: what one turn of the loop appends.
regression_result(entity) ==
    LET last_count == q_meta[entity]
        base == BaseOf(entity)
        q == CountRows(entity_to_table[base])
    IN  IF last_count = NoCount \/ ~(last_count > 0) THEN <<>>
        ELSE IF base \notin DOMAIN entity_to_table THEN <<>>
        ELSE IF q.error THEN <<>>
        ELSE <<CheckResult(entity_to_table[base], <<"regression">>,
                           ~(last_count > 0 /\ LessThanHalf(q.count, last_count)),
                           [current |-> q.count, last |-> last_count])>>

RECURSIVE Flatten(_)
Flatten(lists) ==
    IF lists = <<>> THEN <<>> ELSE Head(lists) \o Flatten(Tail(lists))

\* The results a loop over the items appends, in order.
Collect(items, f(_)) == Flatten([k \in 1..Len(items) |-> f(items[k])])

\* A gate that opens read-write connections.
WriterConn == [read_only |-> FALSE]

\* Lines 82, 106 and 138: get_conn(read_only=True).
QualityConn == [read_only |-> TRUE]

\* The stores the gate may find.
QualityStart ==
    /\ q_pc = "ready"
    /\ q_entry = ""
    /\ q_missing \in {m \in SUBSET (QualityTables \cup {"sync_meta"}) :
                         Cardinality(m) <= 1}
    /\ \E c \in CountValues, d \in {0, 600}, e \in {0, 50000} :
          q_rows = [t \in QualityTables |->
                       IF t = "members" THEN c
                       ELSE IF t \in {"bills", "votes"} THEN d ELSE e]
    /\ q_nullcols \in {n \in SUBSET {_NOT_ALL_NULL[k] : k \in 1..Len(_NOT_ALL_NULL)} :
                          Cardinality(n) <= 1}
    /\ \E l \in LastCountValues, b \in {NoCount, 1000}, c \in {NoCount, 5} :
          q_meta = [e \in {MetaEntities[k] : k \in 1..Len(MetaEntities)} |->
                       IF e = <<"members">> THEN l
                       ELSE IF e = <<"bills", "118">> THEN b ELSE c]
    /\ results = <<>>
    /\ q_opened = <<>>
    /\ q_return = "none"

\* run_all_checks or check_and_report is called.
QualityCall ==
    /\ q_pc = "ready"
    /\ q_entry' \in {"run_all_checks", "check_and_report"}
    /\ q_pc' = "_check_row_counts"
    /\ UNCHANGED <<q_missing, q_rows, q_nullcols, q_meta, results, q_opened,
                   q_return, notQuality>>

\* Lines 79-100.
CheckRowCounts ==
    /\ q_pc = "_check_row_counts"
    /\ q_opened' = Append(q_opened, QualityConn)
    /\ results' = results \o Collect(_MIN_ROWS, min_rows_result)
    /\ q_pc' = "_check_null_columns"
    /\ UNCHANGED <<q_entry, q_missing, q_rows, q_nullcols, q_meta, q_return,
                   notQuality>>

\* Lines 103-128.
CheckNullColumns ==
    /\ q_pc = "_check_null_columns"
    /\ q_opened' = Append(q_opened, QualityConn)
    /\ results' = results \o Collect(_NOT_ALL_NULL, not_all_null_result)
    /\ q_pc' = "_check_row_count_regression"
    /\ UNCHANGED <<q_entry, q_missing, q_rows, q_nullcols, q_meta, q_return,
                   notQuality>>

\* Lines 131-179; lines 139-144: without sync_meta the list stays empty.
CheckRowCountRegression ==
    /\ q_pc = "_check_row_count_regression"
    /\ q_opened' = Append(q_opened, QualityConn)
    /\ results' = results \o
                  (IF "sync_meta" \in q_missing THEN <<>>
                   ELSE Collect(MetaEntities, regression_result))
    /\ q_pc' = "collected"
    /\ UNCHANGED <<q_entry, q_missing, q_rows, q_nullcols, q_meta, q_return,
                   notQuality>>

\* Line 30 of db.py, reached from lines 82, 106 and 138: duckdb.connect
\* raises (the database file is missing or held by a writing process).  No
\* try statement of quality.py surrounds the with statement, so the
\* exception leaves run_all_checks and check_and_report.
QualityConnectFails ==
    /\ q_pc \in {"_check_row_counts", "_check_null_columns",
                 "_check_row_count_regression"}
    /\ q_pc' = "raised"
    /\ UNCHANGED <<q_entry, q_missing, q_rows, q_nullcols, q_meta, results,
                   q_opened, q_return, notQuality>>

\* Lines 58 and 63-76: run_all_checks returns, and check_and_report returns
\* whether no result failed.
QualityReturn ==
    /\ q_pc = "collected"
    /\ q_return' = IF q_entry = "check_and_report"
                   THEN (IF {k \in 1..Len(results) : ~results[k].passed} = {}
                         THEN "True" ELSE "False")
                   ELSE "results"
    /\ q_pc' = "returned"
    /\ UNCHANGED <<q_entry, q_missing, q_rows, q_nullcols, q_meta, results,
                   q_opened, notQuality>>

QualityNext ==
    \/ QualityCall
    \/ CheckRowCounts
    \/ CheckNullColumns
    \/ CheckRowCountRegression
    \/ QualityConnectFails
    \/ QualityReturn

InitQuality ==
    /\ QualityStart
    /\ StatusIdle
    /\ ParseIdle
    /\ CliIdle
    /\ GateIdle
    /\ ClientIdle
    /\ SyncIdle
    /\ ConnIdle
    /\ VotesIdle
    /\ RunsIdle

SpecQuality == InitQuality /\ [][QualityNext]_vars

\* The results of one check.
ResultsOf(check) == {k \in 1..Len(results) : results[k].check = check}

\* C22: a regression result fails exactly when twice the current row count
\* is less than the record_count of the cursor: 1000 with 400 fails, with 600
\* passes, with exactly 500 passes; every cursor with a positive count whose
\* table can be counted gets such a result.
C22_RegressionAtHalf ==
    /\ \A k \in ResultsOf(<<"regression">>) :
          LET r == results[k]
          IN  /\ r.detail.current = q_rows[r.table]
              /\ r.passed <=> ~(2 * r.detail.current < r.detail.last)
              /\ (r.detail.last = 1000 /\ r.detail.current = 400) => ~r.passed
              /\ (r.detail.last = 1000 /\ r.detail.current = 600) => r.passed
              /\ (r.detail.last = 1000 /\ r.detail.current = 500) => r.passed
    /\ q_pc \in {"collected", "returned"} =>
          \A j \in 1..Len(MetaEntities) :
              LET e == MetaEntities[j]
              IN  (/\ "sync_meta" \notin q_missing
                   /\ q_meta[e] > 0
                   /\ BaseOf(e) \in DOMAIN entity_to_table
                   /\ entity_to_table[BaseOf(e)] \notin q_missing)
                  => \E k \in ResultsOf(<<"regression">>) :
                        /\ results[k].table = entity_to_table[BaseOf(e)]
                        /\ results[k].detail.last = q_meta[e]

C22_Witness ==
    \E k \in ResultsOf(<<"regression">>) :
        /\ results[k].detail.last = 1000
        /\ results[k].detail.current = 500
        /\ results[k].passed

\* C23: check_and_report never raises, whatever the state of the store, and
\* returns True exactly when no result failed.
C23_NeverRaises ==
    q_entry = "check_and_report" =>
        /\ q_pc # "raised"
        /\ q_pc = "returned" =>
              (q_return = "True" <=> \A k \in 1..Len(results) : results[k].passed)

\* The results of a completed run hold one min_rows result for each table of
\* _MIN_ROWS and one not_all_null result for each pair of _NOT_ALL_NULL, the
\* item of a missing table having failed.
OnePerItem ==
    /\ \A j \in 1..Len(_MIN_ROWS) :
          LET K == {k \in ResultsOf(<<"min_rows">>) :
                       results[k].table = _MIN_ROWS[j][1]}
          IN  /\ Cardinality(K) = 1
              /\ _MIN_ROWS[j][1] \in q_missing =>
                    \A k \in K : ~results[k].passed
    /\ \A j \in 1..Len(_NOT_ALL_NULL) :
          LET K == {k \in ResultsOf(<<"not_all_null", _NOT_ALL_NULL[j][2]>>) :
                       results[k].table = _NOT_ALL_NULL[j][1]}
          IN  /\ Cardinality(K) = 1
              /\ _NOT_ALL_NULL[j][1] \in q_missing =>
                    \A k \in K : ~results[k].passed
    /\ Cardinality(ResultsOf(<<"min_rows">>)) = 10
    /\ Cardinality({k \in 1..Len(results) :
                       Len(results[k].check) = 2}) = 7

C25_ReadOnly ==
    /\ [](\A k \in 1..Len(q_opened) : q_opened[k].read_only)
    /\ [][UNCHANGED <<q_missing, q_rows, q_nullcols, q_meta>>]_vars

C25_Witness ==
    /\ q_pc = "returned"
    /\ Len(q_opened) = 3

\* C26: every change a sync routine makes to the tables is the COMMIT of a
\* transaction opened by the batch layer: no statement changes the store
\* outside a begin/commit pair.
C26_WritesInTransaction ==
    [][store' # store => (inTxn /\ ~inTxn' /\ commits' = commits + 1)]_vars

\* The running routine looked its cursor up when it was entered.
LookedUp ==
    /\ routine \in DetailRoutines \cup {"bills"}
    /\ pc # "idle"
    /\ ~opts.full

\* C27 as stated: the lookup of an entity whose row is present returns the
\* timestamp of the row.
C27_ReadsBack ==
    (LookedUp /\ cursor0[EntityOf(routine)].present) =>
        from_dt = cursor0[EntityOf(routine)].last_update_dt

\* C27, amended: set_last_sync(e, n) writes the row of e with the current
\* time and n and touches no other row; no row is ever deleted; a lookup
\* returns None for an entity without a row and, for an entity with a row,
\* the timestamp of the row, or None when the read raises.
C27_RoundTrip ==
    /\ [][cursor' # cursor =>
            \E e \in EntityKeys :
                /\ cursor'[e] = CursorRow(now, inserted)
                /\ \A o \in EntityKeys \ {e} : cursor'[o] = cursor[o]]_vars
    /\ [][\A e \in EntityKeys : cursor[e].present => cursor'[e].present]_vars
    /\ [](LookedUp =>
            IF cursor0[EntityOf(routine)].present
            THEN from_dt \in {cursor0[EntityOf(routine)].last_update_dt, 0}
            ELSE from_dt = 0)

C27_Witness ==
    /\ LookedUp
    /\ pc = "done"
    /\ cursor0[EntityOf(routine)].present
    /\ from_dt = cursor0[EntityOf(routine)].last_update_dt
    /\ cursor[EntityOf(routine)].last_update_dt
          > cursor0[EntityOf(routine)].last_update_dt
    /\ \E o \in EntityKeys \ {EntityOf(routine)} : cursor[o].present

-----------------------------------------------------------------------------
(***************************************************************************)
(* The store connections of the sync routines: how each routine opens its  *)
(* connection and where it closes it.                                      *)
(***************************************************************************)
\* The routines that open the store inside `with get_conn() as conn:`
\* (sync_members.py:103, sync_bills.py:65, 194, 280, 345, 408,
\* sync_meta.py:17, 33).
WithGetConn ==
    {"sync_members", "sync_bills", "sync_cosponsors", "sync_actions",
     "sync_subjects", "sync_summaries", "get_last_sync", "set_last_sync"}

\* The routines that call duckdb.connect themselves and call conn.close()
\* as a plain statement after their loop (sync_votes.py:157/219, 234/294,
\* 325/398, 419/474, sync_committees.py:44/113).
WithConnect ==
    {"sync_votes", "sync_member_votes", "sync_senate_votes",
     "sync_senate_member_votes", "sync_committees"}

\* The routines whose loop calls check_consecutive_errors.
RaisesSyncError ==
    {"sync_cosponsors", "sync_actions", "sync_subjects", "sync_summaries",
     "sync_member_votes"}

MaxStatements == 3

\* The connections still open once the body has been left by an exception:
\* the finally clause of get_conn (db.py lines 33-39) closes the connection;
\* a conn.close() placed after the loop is not reached.
OpenAfterRaise(r, left) == IF r \in WithGetConn THEN 0 ELSE left

\* A routine is entered and opens its connection.
ConnEnter ==
    /\ conn_pc = "idle"
    /\ conn_routine' \in WithGetConn \cup WithConnect
    /\ conn_open' = 1
    /\ conn_pc' = "body"
    /\ UNCHANGED <<statements, conn_error, notConn>>

\* The body executes one more statement.
ConnExecute ==
    /\ conn_pc = "body"
    /\ statements < MaxStatements
    /\ statements' = statements + 1
    /\ UNCHANGED <<conn_pc, conn_routine, conn_open, conn_error, notConn>>

\* The body ends: get_conn's finally clause, or the conn.close() after the
\* loop (or before an early return), closes the connection.
ConnReturn ==
    /\ conn_pc = "body"
    /\ conn_open' = 0
    /\ conn_pc' = "returned"
    /\ UNCHANGED <<conn_routine, statements, conn_error, notConn>>

\* A statement or a request of the body raises and nothing in the routine
\* catches it, or check_consecutive_errors raises SyncError.
ConnRaise ==
    /\ conn_pc = "body"
    /\ \E e \in {"SyncError", "Exception"} :
          /\ e = "SyncError" => conn_routine \in RaisesSyncError
          /\ conn_error' = e
    /\ conn_open' = OpenAfterRaise(conn_routine, conn_open)
    /\ conn_pc' = "raised"
    /\ UNCHANGED <<conn_routine, statements, notConn>>

ConnNext ==
    \/ ConnEnter
    \/ ConnExecute
    \/ ConnReturn
    \/ ConnRaise

InitConn ==
    /\ ConnIdle
    /\ QualityIdle
    /\ StatusIdle
    /\ ParseIdle
    /\ CliIdle
    /\ GateIdle
    /\ ClientIdle
    /\ SyncIdle
    /\ VotesIdle
    /\ RunsIdle

SpecConn == InitConn /\ [][ConnNext]_vars

\* C28: when a routine has returned or raised, SyncError included, it holds
\* no open store connection.
C28_AllClosed ==
    conn_pc \in {"returned", "raised"} => conn_open = 0

-----------------------------------------------------------------------------
(***************************************************************************)
(* sync_votes.py: sync_votes (with_members = False, as the command calls   *)
(* it).  The votes are counted, not told apart.                            *)
(***************************************************************************)
MaxVoteLimit == 3
MaxVoteCount == 4
MaxPageLen == 2

\* Line 140.
LimitReached(limit, off) == limit > 0 /\ off >= limit

\* Lines 110-122: sync_votes is called; votes = [], offset = 0.
SyncVotesCall ==
    /\ v_pc = "idle"
    /\ v_limit' \in 0..MaxVoteLimit
    /\ v_count' \in 0..MaxVoteCount
    /\ v_offset' = 0
    /\ v_votes' = 0
    /\ v_written' = 0
    /\ v_failed' = FALSE
    /\ v_pc' = "fetch"
    /\ UNCHANGED notVotes

\* After the loop, lines 151-157: without votes the routine returns, else it
\* opens the store and starts the write loop.
AfterFetch(n) == IF n = 0 THEN "returned" ELSE "write"

\* The lengths the page at an offset may have: empty only when the source
\* holds no vote past the offset.
PageLens(count, off) ==
    IF count - off <= 0 THEN {0} ELSE 1..Min(MaxPageLen, count - off)

\* One turn of the loop of lines 124-145: the page of the current offset
\* arrives with some number of votes.
VotesFetch ==
    /\ v_pc = "fetch"
    /\ \E len \in PageLens(v_count, v_offset) :
          IF len = 0
          THEN /\ v_pc' = AfterFetch(v_votes)
               /\ UNCHANGED <<v_votes, v_offset>>
          ELSE /\ v_votes' = v_votes + len
               /\ v_offset' = v_offset + len
               /\ v_pc' = IF LimitReached(v_limit, v_offset') \/ v_offset' >= v_count
                          THEN AfterFetch(v_votes')
                          ELSE "fetch"
    /\ UNCHANGED <<v_limit, v_count, v_written, v_failed, notVotes>>

\* Lines 147-149: the page request raises (a client error that is not
\* retried, or retries exhausted); the except clause prints and breaks.
VotesFetchFails ==
    /\ v_pc = "fetch"
    /\ v_failed' = TRUE
    /\ v_pc' = AfterFetch(v_votes)
    /\ UNCHANGED <<v_limit, v_count, v_offset, v_votes, v_written, notVotes>>

\* One turn of the loop of lines 160-217: the next vote is written.
VotesInsert ==
    /\ v_pc = "write"
    /\ v_written < v_votes
    /\ v_written' = v_written + 1
    /\ UNCHANGED <<v_pc, v_limit, v_count, v_offset, v_votes, v_failed,
                   notVotes>>

\* The INSERT of line 191 raises; nothing catches it.
VotesInsertFails ==
    /\ v_pc = "write"
    /\ v_written < v_votes
    /\ v_pc' = "raised"
    /\ UNCHANGED <<v_limit, v_count, v_offset, v_votes, v_written, v_failed,
                   notVotes>>

\* Lines 219-220: the connection is closed and sync_votes returns.
VotesReturn ==
    /\ v_pc = "write"
    /\ v_written = v_votes
    /\ v_pc' = "returned"
    /\ UNCHANGED <<v_limit, v_count, v_offset, v_votes, v_written, v_failed,
                   notVotes>>

VotesNext ==
    \/ SyncVotesCall
    \/ VotesFetch
    \/ VotesFetchFails
    \/ VotesInsert
    \/ VotesInsertFails
    \/ VotesReturn

InitVotes ==
    /\ VotesIdle
    /\ ConnIdle
    /\ QualityIdle
    /\ StatusIdle
    /\ ParseIdle
    /\ CliIdle
    /\ GateIdle
    /\ ClientIdle
    /\ SyncIdle
    /\ RunsIdle

SpecVotes == InitVotes /\ [][VotesNext]_vars

\* C29: with limit > 0 sync_votes collects at most limit votes, whatever
\* the length of the pages; with limit = 0 a run whose requests all succeed
\* collects every vote of the source.
C29_AtMostLimit ==
    /\ v_limit > 0 => v_votes <= v_limit
    /\ (v_limit = 0 /\ ~v_failed /\ v_pc \in {"write", "returned"}) =>
          v_votes = v_count

\* C30: nothing is written before the last page has been fetched, and a
\* page request that raises ends the sync with the exception, no row having
\* been written.
C30_FetchThenWrite ==
    /\ v_pc = "fetch" => v_written = 0
    /\ v_failed => (v_written = 0 /\ v_pc \notin {"write", "returned"})

-----------------------------------------------------------------------------
(***************************************************************************)
(* The pagination loops of sync_members and sync_bills on their own.       *)
(***************************************************************************)
\* The steps of the two routines up to the end of their fetch loops.
NextFetch ==
    \/ SyncMembersStart
    \/ MembersFetch
    \/ SyncBillsStart
    \/ BillsFetch
    \/ FetchFails

\* A request that is sent returns: the turn of the loop is weakly fair.
SpecFetch ==
    /\ Init
    /\ [][NextFetch]_vars
    /\ WF_vars(MembersFetch)
    /\ WF_vars(BillsFetch)

\* The number of pages that hold n records.
CeilDiv(n, d) == (n + d - 1) \div d

\* The bills of a type among the bills collected, in the order collected.
OfType(list, t) == SelectSeq(list, LAMBDA b : b.type = t)

\* The records of the source, as bills of a type.
AsBills(recs, t) == [k \in 1..Len(recs) |-> [type |-> t, number |-> recs[k]]]

\* The members loop has ended without a request raising: the list holds the
\* source's records once each, in order, and one request was sent per page
\* (one request when the source holds nothing).
C31_MembersCollected ==
    (routine = "members" /\ pc = "batch") =>
        /\ fetched = src
        /\ offset = Len(src)
        /\ Cardinality(reqs) = Max(1, CeilDiv(Len(src), PageSize))

\* A turn of either loop that stays in the loop moves the offset strictly
\* up, and never past the count the source reports.
C31_OffsetsIncrease ==
    (pc = "fetch" /\ pc' = "fetch" /\ ti' = ti) =>
        (offset' > offset /\ offset' <= Len(src))

\* The turn that ends the loop of a bill type: the bills of that type in the
\* list are the source's records for it, once each, in order.
C31_TypeCollected ==
    (routine = "bills" /\ pc = "fetch" /\ (ti' # ti \/ pc' = "write")) =>
        OfType(fetched', bill_types[ti]) = AsBills(src, bill_types[ti])

\* C31: against a source that holds N records, returns non-empty pages while
\* records remain and reports N as pagination.count, the paginated loop
\* requests strictly increasing offsets, ends after finitely many requests,
\* and collects each of the N records exactly once; it never ends before the
\* count is reached unless a page is empty.
C31_FetchLoopComplete ==
    /\ [](C31_MembersCollected)
    /\ [][C31_OffsetsIncrease /\ C31_TypeCollected]_vars
    /\ ((pc = "fetch") ~> (pc # "fetch"))

\* Both loops have run over a source of more than one page.
C31_Witness ==
    /\ routine = "bills"
    /\ pc = "write"
    /\ Len(src) = MaxRecords
    /\ Len(fetched) > MaxRecords
    /\ offset = MaxRecords

-----------------------------------------------------------------------------
(***************************************************************************)
(* The selection at the head of a detail sync.                             *)
(***************************************************************************)
\* A detail sync that has made its selection.
Selected == routine \in DetailRoutines /\ pc \in {"loop", "cursor", "done", "raised"}

\* The keys of the bills a detail sync goes through.
ParentKeys == {<<parents[i].type, parents[i].number>> : i \in 1..Len(parents)}

\* The bills the store held when the run started, and those of them whose
\* updated_at is at or after a time.
StoredBills == {b \in BillKeys : store0.bills[b] # 0}
UpdatedSince(t) == {b \in StoredBills : store0.bills[b] >= t}

-----------------------------------------------------------------------------
(***************************************************************************)
(* A cursor lookup that fails.                                             *)
(***************************************************************************)
\* An incremental sync_bills whose entity has a cursor row, and which
\* nevertheless got None from get_last_sync: the lookup raised inside
\* get_last_sync and the except clause returned None.
LookupFailed ==
    /\ routine = "bills"
    /\ ~opts.full
    /\ cursor0["bills-118"].present
    /\ from_dt = 0

\* C33: a cursor lookup that fails is treated as never synced: get_last_sync
\* yields the stored time or None and never anything else, the routine goes
\* on, and after a None every request it sends carries no fromDateTime.
C33_FailedLookupIsFull ==
    (routine = "bills" /\ ~opts.full) =>
        /\ from_dt \in {0, cursor0["bills-118"].last_update_dt}
        /\ from_dt = 0 => \A r \in reqs : r.fromDateTime = 0
        /\ LookupFailed => pc \in {"fetch", "write", "cursor", "details",
                                   "loop", "done", "raised"}

\* A sync_bills whose lookup failed has fetched, written and finished.
C33_Witness ==
    /\ LookupFailed
    /\ pc = "done"
    /\ reqs # {}
    /\ nwrites > 0

-----------------------------------------------------------------------------
(***************************************************************************)
(* db.py: the exits of the transaction context manager.                    *)
(***************************************************************************)
\* Control is inside a `with transaction(conn)` block: in the body, or in
\* the except clause before its ROLLBACK.
InsideTransaction == routine = "members" /\ pc \in {"exec", "rollback"}

\* C34: the transaction context manager ends every transaction it begins on
\* every exit path: once control is outside the context, each BEGIN
\* TRANSACTION has been followed by exactly one COMMIT or one ROLLBACK,
\* also when the process is interrupted inside the body.
C34_EveryBeginEnded ==
    ~InsideTransaction => begins = commits + rollbacks

-----------------------------------------------------------------------------
(***************************************************************************)
(* sync_bills.py, sync_meta.py: consecutive incremental runs of sync_bills *)
(* while the source goes on updating its bills.                            *)
(***************************************************************************)
MaxClock == 5
NumRunBills == 2
MaxRuns == 2

RunBills == 1..NumRunBills

\* The bills a request with this fromDateTime returns: those updated at or
\* after it, every bill when the request carries none.
UpdatedFrom(updated, from) ==
    {b \in RunBills : from = 0 \/ updated[b] >= from}

\* A second of wall-clock time passes.
RunsTick ==
    /\ u_pc # "off"
    /\ u_clock < MaxClock
    /\ u_clock' = u_clock + 1
    /\ UNCHANGED <<u_pc, u_updated, u_from, u_fetch_at, u_got, u_stored,
                   u_cursor, u_runs, u_late, notRuns>>

\* The source records an update of a bill: its update time is now.
SourceUpdates ==
    /\ u_pc # "off"
    /\ \E b \in RunBills :
          /\ u_updated[b] < u_clock
          /\ u_updated' = [u_updated EXCEPT ![b] = u_clock]
    /\ UNCHANGED <<u_pc, u_clock, u_from, u_fetch_at, u_got, u_stored,
                   u_cursor, u_runs, u_late, notRuns>>

\* sync_bills line 32 with full=False: from_dt is what get_last_sync
\* returns, the stored time or None.
RunStart ==
    /\ u_pc = "idle"
    /\ u_runs < MaxRuns
    /\ u_from' \in {u_cursor, 0}
    /\ u_got' = [b \in RunBills |-> 0]
    /\ u_pc' = "fetch"
    /\ UNCHANGED <<u_clock, u_updated, u_fetch_at, u_stored, u_cursor, u_runs,
                   u_late, notRuns>>

\* Lines 41-61: the pages are requested with from_datetime=from_dt and the
\* source answers with the bills that pass the filter, as they are now.
RunFetch ==
    /\ u_pc = "fetch"
    /\ u_got' = [b \in RunBills |->
                    IF b \in UpdatedFrom(u_updated, FromDateTimeParam(u_from))
                    THEN u_updated[b] ELSE 0]
    /\ u_fetch_at' = u_clock
    /\ u_pc' = "write"
    /\ UNCHANGED <<u_clock, u_updated, u_from, u_stored, u_cursor, u_runs,
                   u_late, notRuns>>

\* Lines 65-98: every fetched bill is written with INSERT OR REPLACE.
RunWrite ==
    /\ u_pc = "write"
    /\ u_stored' = [b \in RunBills |->
                       IF u_got[b] # 0 THEN u_got[b] ELSE u_stored[b]]
    /\ u_pc' = "stamp"
    /\ UNCHANGED <<u_clock, u_updated, u_from, u_fetch_at, u_got, u_cursor,
                   u_runs, u_late, notRuns>>

\* Line 101 and set_last_sync lines 29-39: the cursor is stamped with the
\* time of the call.
RunStamp ==
    /\ u_pc = "stamp"
    /\ u_cursor' = u_clock
    /\ u_late' = {b \in RunBills :
                     u_updated[b] > u_fetch_at /\ u_updated[b] < u_clock}
    /\ u_runs' = u_runs + 1
    /\ u_pc' = "idle"
    /\ UNCHANGED <<u_clock, u_updated, u_from, u_fetch_at, u_got, u_stored,
                   notRuns>>

RunsNext ==
    \/ RunsTick
    \/ SourceUpdates
    \/ RunStart
    \/ RunFetch
    \/ RunWrite
    \/ RunStamp

\* The source holds its bills, the store is empty and has no cursor.
RunsStart ==
    /\ u_pc = "idle"
    /\ u_clock = 1
    /\ u_updated = [b \in RunBills |-> 1]
    /\ u_from = 0
    /\ u_fetch_at = 0
    /\ u_got = [b \in RunBills |-> 0]
    /\ u_stored = [b \in RunBills |-> 0]
    /\ u_cursor = 0
    /\ u_runs = 0
    /\ u_late = {}

InitRuns ==
    /\ RunsStart
    /\ VotesIdle
    /\ ConnIdle
    /\ QualityIdle
    /\ StatusIdle
    /\ ParseIdle
    /\ CliIdle
    /\ GateIdle
    /\ ClientIdle
    /\ SyncIdle

SpecRuns == InitRuns /\ [][RunsNext]_vars

\* C35: no update is missed between consecutive incremental runs of
\* sync_bills: a bill updated at the source after the fetch of run n and
\* before the cursor stamp of run n is returned by the filtered fetch of
\* run n+1.
C35_NoUpdateMissed ==
    (u_pc = "write" /\ u_from # 0) => \A b \in u_late : u_got[b] # 0

-----------------------------------------------------------------------------
(***************************************************************************)
(* sync_bills.py: what becomes of a bill whose turn of a detail loop fails.*)
(***************************************************************************)
\* A detail sync has completed and recorded its cursor although the except
\* clause skipped at least one bill.
CompletedWithSkips ==
    /\ routine \in DetailRoutines
    /\ pc = "done"
    /\ EntityOf(routine) \in stamped
    /\ errors_total > 0

\* The bills the next incremental run of the same detail sync selects: it
\* reads the cursor this run recorded.
NextSelection ==
    LET next == SelectBills(store.bills, cursor[EntityOf(routine)].last_update_dt)
    IN  {<<next[i].type, next[i].number>> : i \in 1..Len(next)}

\* C36: a bill skipped by a record-level error is not lost: after a detail
\* sync that completed, each of the bills it skipped (errors_total of its
\* parents) is among the bills the next incremental run selects, even if
\* the bill was not updated in between.
C36_SkippedReselected ==
    CompletedWithSkips =>
        Cardinality(ParentKeys \cap NextSelection) >= errors_total

\* The except clause of a detail loop is reached for the bill of this turn.
TurnFails == InLoop /\ errors_total' = errors_total + 1

\* The rows and columns of a bill that the store holds and did not hold when
\* the run began.
WrittenFor(b) ==
    {c \in store.cells \ store0.cells : c[1] = b.type /\ c[2] = b.number}

\* C37: the writes of one turn of a detail loop are all-or-nothing: when the
\* turn raises part-way, the store holds no write made during that turn.
C37_TurnAllOrNothing == [][TurnFails => WrittenFor(parents[idx]) = {}]_vars

-----------------------------------------------------------------------------
(***************************************************************************)
(* The three constructions of a bill_id.                                   *)
(***************************************************************************)
\* sync_bills lines 68-74: the bill_id of a bill record of the source, from
\* its type lowercased and its number as given (None when it has no number).
bills_bill_id(congress, type_text, bill_number) ==
    IF bill_number = <<>> THEN <<>>
    ELSE FormatBillId(congress, lower(type_text), bill_number)

\* The group of a parsed Senate issue that matched, and the digits in it.
MatchedGroup(iss) ==
    LET m == SenateIssueMatch(strip(iss))
    IN  CHOOSE k \in 1..Len(m) : m[k] # <<>>
MatchedDigits(iss) == SenateIssueMatch(strip(iss))[MatchedGroup(iss)]

\* C38: the three constructions of a bill_id agree: the id that
\* _parse_senate_issue gives for a type and a number text is the id that
\* _build_house_bill_id gives for the same type and number text, and is the
\* bill_id sync_bills gives the bill of that type and number, also when the
\* number is written with leading zeros.
C38_ConstructorsAgree ==
    (parse_pc = "parsed" /\ senate_bill_id # <<>>) =>
        LET key == _LEG_TYPE_MAP[MatchedGroup(issue)][1]
            digits == MatchedDigits(issue)
        IN  /\ senate_bill_id = _build_house_bill_id(congress_arg, key, digits)
            /\ senate_bill_id =
                  bills_bill_id(congress_arg, key, str(int(digits).val))

-----------------------------------------------------------------------------
(***************************************************************************)
(* The record_count a sync stores on its cursor.                           *)
(***************************************************************************)
\* SELECT COUNT(*) of the table a routine fills.
TableCount(r) ==
    IF r = "members"
    THEN Cardinality({m \in MemberIds : store.members[m] # 0})
    ELSE Cardinality({b \in BillKeys : store.bills[b] # 0})

\* C39: the record_count a successful members or bills sync stores on its
\* cursor is the row count of the entity's table at that moment.
C39_CountIsTableSize ==
    (routine \in {"members", "bills"} /\ pc = "done"
        /\ EntityOf(routine) \in stamped) =>
            cursor[EntityOf(routine)].record_count = TableCount(routine)

-----------------------------------------------------------------------------
(***************************************************************************)
(* db.py: the chunks of batch_execute.                                     *)
(***************************************************************************)
\* Chunk number k of the rows: rows (k-1)*batch_size+1 .. k*batch_size, as
\* far as there are rows.
Chunk(k) ==
    SubSeq(rows, (k - 1) * batch_size + 1, Min(k * batch_size, Len(rows)))

\* C40: for batch_size >= 1 batch_execute runs ceil(len(rows)/batch_size)
\* transactions, the k-th over the k-th chunk of the rows in input order,
\* each row in exactly one of them, and returns len(rows) on success; for
\* no rows it opens no transaction and returns 0.
C40_ChunksCoverRows ==
    routine = "members" =>
        /\ batch_size >= 1
        /\ pc = "batch" =>
              /\ begins = commits
              /\ bi = commits * batch_size
              /\ total = Min(bi, Len(rows))
        /\ pc = "exec" =>
              /\ begins = commits + 1
              /\ Batch = Chunk(begins)
              /\ Batch # <<>>
              /\ total = (begins - 1) * batch_size
              /\ total + Len(Batch) <= Len(rows)
        /\ pc \in {"cursor", "done"} =>
              /\ begins = CeilDiv(Len(rows), batch_size)
              /\ commits = begins
              /\ rollbacks = 0
              /\ inserted = Len(rows)
              /\ rows = <<>> => (begins = 0 /\ inserted = 0)

\* batch_execute has returned after more than one transaction, the last
\* over a chunk shorter than batch_size or every chunk of one row.
C40_Witness ==
    /\ routine = "members"
    /\ pc = "done"
    /\ Len(rows) = MaxRecords
    /\ commits > 1
    /\ inserted = MaxRecords

=============================================================================
